---- MODULE Spec2Model ----
(***************************************************************************)
(* The scan pipeline of src/app/api/scan/route.ts: the POST handler, the   *)
(* analysis routine performUXAnalysis and the crop routine                 *)
(* captureElementScreenshot, over the three tables of the database schema. *)
(*                                                                         *)
(* JavaScript values are tagged records, so that `undefined`, `null`, the  *)
(* empty string and 0 are distinct values and `a || b` is computed as the  *)
(* language computes it.  Strings are tuples of characters, so that        *)
(* toLowerCase, trim and includes are computed, not assumed.               *)
(***************************************************************************)
EXTENDS Integers, Sequences, FiniteSets, TLC

VARIABLES
    inv,              \* per invocation of POST: its locals and its position
    scans,            \* table scans: a sequence of rows, id = index
    ux_issues,        \* table ux_issues: the rows inserted, in order
    recommendations   \* table recommendations: the rows inserted, in order

vars == <<inv, scans, ux_issues, recommendations>>

(***************************************************************************)
(* JavaScript values                                                       *)
(***************************************************************************)
Undefined == [t |-> "undefined"]
Null == [t |-> "null"]
Num(n) == [t |-> "number", v |-> n]
Str(s) == [t |-> "string", v |-> s]
Arr(s) == [t |-> "array", v |-> s]
Obj(r) == [t |-> "object", v |-> r]

IsNullish(x) == x.t \in {"undefined", "null"}

\* ToBoolean(x) = false
Falsy(x) ==
    \/ IsNullish(x)
    \/ x.t = "string" /\ x.v = <<>>
    \/ x.t = "number" /\ x.v = 0

\* a || b
OrElse(a, b) == IF Falsy(a) THEN b ELSE a

\* String.prototype.toLowerCase, on the letters the model uses
UpperCase == <<"A","B","C","D","E","F","G","H","I","J","K","L","M",
               "N","O","P","Q","R","S","T","U","V","W","X","Y","Z">>
LowerCase == <<"a","b","c","d","e","f","g","h","i","j","k","l","m",
               "n","o","p","q","r","s","t","u","v","w","x","y","z">>

toLowerChar(c) ==
    IF \E k \in DOMAIN UpperCase : UpperCase[k] = c
    THEN LowerCase[CHOOSE k \in DOMAIN UpperCase : UpperCase[k] = c]
    ELSE c

toLowerCase(s) == [k \in DOMAIN s |-> toLowerChar(s[k])]

\* String.prototype.trim
WhiteSpace == {" ", "\t", "\n"}

trim(s) ==
    LET keep == {k \in DOMAIN s : s[k] \notin WhiteSpace}
    IN  IF keep = {} THEN <<>>
        ELSE LET lo == CHOOSE k \in keep : \A j \in keep : k <= j
                 hi == CHOOSE k \in keep : \A j \in keep : j <= k
             IN  SubSeq(s, lo, hi)

\* String.prototype.includes
includes(s, sub) ==
    \E k \in 0..Len(s) :
        /\ k + Len(sub) <= Len(s)
        /\ SubSeq(s, k + 1, k + Len(sub)) = sub

\* Array.prototype.includes on an array of strings
arrayIncludes(a, s) == \E k \in DOMAIN a : a[k] = s

(***************************************************************************)
(* String literals of the source                                           *)
(***************************************************************************)
s_layout == <<"l","a","y","o","u","t">>
s_accessibility == <<"a","c","c","e","s","s","i","b","i","l","i","t","y">>
s_conversion == <<"c","o","n","v","e","r","s","i","o","n">>
s_mobile == <<"m","o","b","i","l","e">>
s_performance == <<"p","e","r","f","o","r","m","a","n","c","e">>
s_high == <<"h","i","g","h">>
s_medium == <<"m","e","d","i","u","m">>
s_low == <<"l","o","w">>
s_WebsiteLoadingIssues ==
    <<"W","e","b","s","i","t","e"," ","L","o","a","d","i","n","g"," ",
      "I","s","s","u","e","s">>
s_InvestigateLoadingIssues ==
    <<"I","n","v","e","s","t","i","g","a","t","e"," ","L","o","a","d","i","n","g",
      " ","I","s","s","u","e","s">>
s_AnalysisTimeout ==
    <<"A","n","a","l","y","s","i","s"," ","T","i","m","e","o","u","t">>
s_OptimizePageLoadSpeed ==
    <<"O","p","t","i","m","i","z","e"," ","P","a","g","e"," ","L","o","a","d"," ",
      "S","p","e","e","d">>
s_UXIssue == <<"U","X"," ","I","s","s","u","e">>
s_UXRecommendation ==
    <<"U","X"," ","R","e","c","o","m","m","e","n","d","a","t","i","o","n">>
s_button == <<"b","u","t","t","o","n">>
s_cta == <<"c","t","a">>
s_navigation == <<"n","a","v","i","g","a","t","i","o","n">>
s_nav == <<"n","a","v">>
s_form == <<"f","o","r","m">>
s_header == <<"h","e","a","d","e","r">>

\* The long prose literals are kept by name: only their truthiness is read.
s_PageLoad == <<"P","a","g","e"," ","l","o","a","d">>
s_text65 == <<"6","5">>
s_text70 == <<"7","0">>
s_NoDescription == <<"N","o"," ","d","e","s","c">>
s_DefaultImpact == <<"I","m","p","a","c","t">>
s_DefaultImplementation == <<"I","m","p","l">>
s_DefaultExpectedImpact == <<"E","x","p","e","c","t","e","d">>
s_DefaultSummary == <<"l","i","m","i","t","a","t","i","o","n","s">>

(***************************************************************************)
(* Findings and analyses as the reasoning service and the fallbacks give   *)
(* them: objects whose absent fields are undefined.                        *)
(***************************************************************************)
UXIssue(category, severity, title, description, element, impact) ==
    [category |-> category, severity |-> severity, title |-> title,
     description |-> description, element |-> element, impact |-> impact,
     bounds |-> Undefined, screenshot |-> Undefined]

UXRecommendation(priority, title, description, implementation, expectedImpact, effort) ==
    [priority |-> priority, title |-> title, description |-> description,
     implementation |-> implementation, expectedImpact |-> expectedImpact,
     effort |-> effort, screenshot |-> Undefined]

UXAnalysisResult(score, issues, recs, summary) ==
    [score |-> score, issues |-> issues, recommendations |-> recs,
     summary |-> summary]

\* The analysis substituted when JSON.parse throws.
ParseFallbackAnalysis ==
    UXAnalysisResult(
        Num(70),
        Arr(<<UXIssue(Str(s_performance), Str(s_medium), Str(s_AnalysisTimeout),
                      Str(s_text70), Str(s_PageLoad), Str(s_text70))>>),
        Arr(<<UXRecommendation(Str(s_medium), Str(s_OptimizePageLoadSpeed),
                               Str(s_text70), Str(s_text70), Str(s_text70),
                               Str(s_medium))>>),
        Str(s_text70))

\* The analysis returned by the catch block of performUXAnalysis.
CatchFallbackResult ==
    UXAnalysisResult(
        Num(65),
        Arr(<<UXIssue(Str(s_performance), Str(s_high), Str(s_WebsiteLoadingIssues),
                      Str(s_text65), Str(s_PageLoad), Str(s_text65))>>),
        Arr(<<UXRecommendation(Str(s_high), Str(s_InvestigateLoadingIssues),
                               Str(s_text65), Str(s_text65), Str(s_text65),
                               Str(s_high))>>),
        Str(s_text65))

(***************************************************************************)
(* The text of a completion.  Its characters are "{", "}", "m" (text that  *)
(* is well formed inside a JSON object: members, commas, nested values)    *)
(* and "t" (any other text).                                               *)
(***************************************************************************)
\* analysisContent.match(/\{[\s\S]*\}/): from the first "{" to the last "}".
jsonMatch(content) ==
    LET opens == {k \in DOMAIN content : content[k] = "{"}
    IN  IF opens = {} THEN Null
        ELSE LET a == CHOOSE k \in opens : \A j \in opens : k <= j
                 closes == {k \in DOMAIN content : k > a /\ content[k] = "}"}
             IN  IF closes = {} THEN Null
                 ELSE LET b == CHOOSE k \in closes : \A j \in closes : j <= k
                      IN  Str(SubSeq(content, a, b))

\* Nesting depth after the first k characters.
RECURSIVE Depth(_, _)
Depth(s, k) ==
    IF k = 0 THEN 0
    ELSE Depth(s, k - 1)
         + (IF s[k] = "{" THEN 1 ELSE IF s[k] = "}" THEN -1 ELSE 0)

\* Whether JSON.parse accepts the text: one object, closed at the last
\* character and not before, nothing but well formed text inside.
JSONparses(s) ==
    /\ Len(s) >= 2
    /\ s[1] = "{"
    /\ \A k \in DOMAIN s : s[k] \in {"{", "}", "m"}
    /\ \A k \in 1..(Len(s) - 1) : Depth(s, k) > 0
    /\ Depth(s, Len(s)) = 0
    /\ \A k \in 2..Len(s) : s[k] = "{" => s[k - 1] = "m"

(***************************************************************************)
(* The page data extracted in the browser                                  *)
(***************************************************************************)
ViewportWidth == 1920
ViewportHeight == 1080
TopOfPageHeight == 400

Rect(x, y, width, height) ==
    Obj([x |-> x, y |-> y, width |-> width, height |-> height])

\* The object built when page.evaluate throws: it has no elementBounds.
MinimalPageData ==
    [viewport |-> [width |-> ViewportWidth, height |-> ViewportHeight],
     elementBounds |-> Undefined]

\* What page.evaluate returns: each landmark is a rectangle, or null when
\* the page has no such element.
ExtractedPageData(navigation, header, footer, mainContent, primaryCTA, forms) ==
    [viewport |-> [width |-> ViewportWidth, height |-> ViewportHeight],
     elementBounds |-> Obj([navigation |-> navigation, header |-> header,
                            footer |-> footer, mainContent |-> mainContent,
                            primaryCTA |-> primaryCTA, forms |-> forms])]

\* pageData.elementBounds?.<name>
landmark(pageData, name) ==
    IF IsNullish(pageData.elementBounds) THEN Undefined
    ELSE pageData.elementBounds.v[name]

\* issueElementBounds with the landmarks of layout given to mobile.
issueElementBoundsMobileAsLayout(issue, pageData) ==
    IF issue.category = Str(s_layout)
    THEN OrElse(landmark(pageData, "navigation"), landmark(pageData, "header"))
    ELSE IF issue.category = Str(s_conversion)
    THEN OrElse(landmark(pageData, "primaryCTA"), landmark(pageData, "forms"))
    ELSE IF issue.category = Str(s_accessibility)
    THEN OrElse(landmark(pageData, "navigation"), landmark(pageData, "mainContent"))
    ELSE IF issue.category = Str(s_mobile)
    THEN OrElse(landmark(pageData, "navigation"), landmark(pageData, "header"))
    ELSE IF issue.category = Str(s_performance)
    THEN Rect(0, 0, pageData.viewport.width, TopOfPageHeight)
    ELSE Null

\* The switch on issue.category.
issueElementBounds(issue, pageData) ==
    IF issue.category = Str(s_layout)
    THEN OrElse(landmark(pageData, "navigation"), landmark(pageData, "header"))
    ELSE IF issue.category = Str(s_conversion)
    THEN OrElse(landmark(pageData, "primaryCTA"), landmark(pageData, "forms"))
    ELSE IF issue.category = Str(s_accessibility)
    THEN OrElse(landmark(pageData, "navigation"), landmark(pageData, "mainContent"))
    ELSE IF issue.category = Str(s_mobile)
    THEN OrElse(landmark(pageData, "header"), landmark(pageData, "navigation"))
    ELSE IF issue.category = Str(s_performance)
    THEN Rect(0, 0, pageData.viewport.width, TopOfPageHeight)
    ELSE Null

\* The if / else-if chain on rec.title.toLowerCase(); the title is a string.
recommendationElementBounds(rec, pageData) ==
    LET title == toLowerCase(rec.title.v)
    IN  IF includes(title, s_button) \/ includes(title, s_cta)
        THEN landmark(pageData, "primaryCTA")
        ELSE IF includes(title, s_navigation) \/ includes(title, s_nav)
        THEN landmark(pageData, "navigation")
        ELSE IF includes(title, s_form)
        THEN landmark(pageData, "forms")
        ELSE IF includes(title, s_header)
        THEN landmark(pageData, "header")
        ELSE Null

\* elementBounds && elementBounds.width > 0 && elementBounds.height > 0
hasArea(elementBounds) ==
    /\ ~Falsy(elementBounds)
    /\ elementBounds.v.width > 0
    /\ elementBounds.v.height > 0

(***************************************************************************)
(* captureElementScreenshot                                                *)
(***************************************************************************)
padding == 20
MaxCropHeight == 400

Max(a, b) == IF a >= b THEN a ELSE b
Min(a, b) == IF a <= b THEN a ELSE b

\* cropRegion without the clamp of the origin to 0.
cropRegionUnclamped(elementBounds, viewport) ==
    LET cropX == elementBounds.x - padding
        cropY == elementBounds.y - padding
    IN  [left |-> cropX,
         top |-> cropY,
         width |-> Min(viewport.width - cropX, elementBounds.width + (padding * 2)),
         height |-> Min(elementBounds.height + (padding * 2), MaxCropHeight)]

\* The region handed to sharp's extract.
cropRegion(elementBounds, viewport) ==
    LET cropX == Max(0, elementBounds.x - padding)
        cropY == Max(0, elementBounds.y - padding)
    IN  [left |-> cropX,
         top |-> cropY,
         width |-> Min(viewport.width - cropX, elementBounds.width + (padding * 2)),
         height |-> Min(elementBounds.height + (padding * 2), MaxCropHeight)]

\* sharp rejects a region without area; it may also fail on the image
\* itself (decode, a region outside the image), which sharpOk decides.
captureElementScreenshot(fullPageScreenshot, elementBounds, viewport, sharpOk) ==
    LET region == cropRegion(elementBounds, viewport)
    IN  IF sharpOk /\ region.width > 0 /\ region.height > 0
        THEN [t |-> "string", v |-> <<"p","n","g">>, region |-> region]
        ELSE Null

(***************************************************************************)
(* The validation of findings in POST                                      *)
(***************************************************************************)
validCategories ==
    <<s_layout, s_accessibility, s_conversion, s_mobile, s_performance>>
validSeverities == <<s_high, s_medium, s_low>>
validPriorities == <<s_high, s_medium, s_low>>
validEfforts == <<s_low, s_medium, s_high>>

\* sanitizeEnum without the trim.
sanitizeEnumUntrimmed(x, valid, fallback) ==
    LET y == toLowerCase(x.v)
    IN  IF arrayIncludes(valid, y) THEN Str(y) ELSE Str(fallback)

\* valid.includes(x.toLowerCase().trim()) ? x.toLowerCase().trim() : fallback
\* for a string x.
sanitizeEnum(x, valid, fallback) ==
    LET y == trim(toLowerCase(x.v))
    IN  IF arrayIncludes(valid, y) THEN Str(y) ELSE Str(fallback)

\* issue.bounds?.<field>
boundsField(issue, field) ==
    IF IsNullish(issue.bounds) THEN Undefined ELSE Num(issue.bounds.v[field])

\* x.toLowerCase() throws a TypeError unless x is a string.
issueMapThrows(issue) ==
    issue.category.t # "string" \/ issue.severity.t # "string"

recommendationMapThrows(rec) ==
    rec.priority.t # "string" \/ rec.effort.t # "string"

\* validatedIssue with title and description taken from each other.
validatedIssueSwapped(issue, scan_id) ==
    [scan_id |-> scan_id,
     category |-> sanitizeEnum(issue.category, validCategories, s_layout),
     severity |-> sanitizeEnum(issue.severity, validSeverities, s_medium),
     title |-> OrElse(issue.description, Str(s_UXIssue)),
     description |-> OrElse(issue.title, Str(s_NoDescription)),
     element |-> OrElse(issue.element, Null),
     impact |-> OrElse(issue.impact, Str(s_DefaultImpact)),
     screenshot |-> OrElse(issue.screenshot, Null),
     bounds_x |-> OrElse(boundsField(issue, "x"), Null),
     bounds_y |-> OrElse(boundsField(issue, "y"), Null),
     bounds_width |-> OrElse(boundsField(issue, "width"), Null),
     bounds_height |-> OrElse(boundsField(issue, "height"), Null)]

\* The callback of analysisResult.issues.map; .filter keeps a row when
\* issueHasRequiredFields holds of it.
validatedIssue(issue, scan_id) ==
    [scan_id |-> scan_id,
     category |-> sanitizeEnum(issue.category, validCategories, s_layout),
     severity |-> sanitizeEnum(issue.severity, validSeverities, s_medium),
     title |-> OrElse(issue.title, Str(s_UXIssue)),
     description |-> OrElse(issue.description, Str(s_NoDescription)),
     element |-> OrElse(issue.element, Null),
     impact |-> OrElse(issue.impact, Str(s_DefaultImpact)),
     screenshot |-> OrElse(issue.screenshot, Null),
     bounds_x |-> OrElse(boundsField(issue, "x"), Null),
     bounds_y |-> OrElse(boundsField(issue, "y"), Null),
     bounds_width |-> OrElse(boundsField(issue, "width"), Null),
     bounds_height |-> OrElse(boundsField(issue, "height"), Null)]

\* The callback of analysisResult.recommendations.map
validatedRecommendation(rec, scan_id) ==
    [scan_id |-> scan_id,
     priority |-> sanitizeEnum(rec.priority, validPriorities, s_medium),
     title |-> OrElse(rec.title, Str(s_UXRecommendation)),
     description |-> OrElse(rec.description, Str(s_NoDescription)),
     implementation |-> OrElse(rec.implementation, Str(s_DefaultImplementation)),
     expected_impact |-> OrElse(rec.expectedImpact, Str(s_DefaultExpectedImpact)),
     effort |-> sanitizeEnum(rec.effort, validEfforts, s_medium),
     screenshot |-> OrElse(rec.screenshot, Null)]

\* The filter of the issues reading a field that has no default text.
issueHasElement(row) == ~Falsy(row.element) /\ ~Falsy(row.description)

issueHasRequiredFields(row) == ~Falsy(row.title) /\ ~Falsy(row.description)

recommendationHasRequiredFields(row) ==
    ~Falsy(row.title) /\ ~Falsy(row.description) /\ ~Falsy(row.implementation)

validatedIssues(issues, scan_id) ==
    SelectSeq([k \in DOMAIN issues |-> validatedIssue(issues[k], scan_id)],
              issueHasRequiredFields)

validatedRecommendations(recs, scan_id) ==
    SelectSeq([k \in DOMAIN recs |-> validatedRecommendation(recs[k], scan_id)],
              recommendationHasRequiredFields)

(***************************************************************************)
(* The constraints of the database schema                                  *)
(***************************************************************************)
MinScore == 0
MaxScore == 100

\* scans.score INTEGER CHECK (score >= 0 AND score <= 100)
scoreCheck(score) ==
    \/ score.t = "null"
    \/ score.t = "number" /\ score.v >= MinScore /\ score.v <= MaxScore

IsText(x) == x.t = "string"

\* ux_issues: the CHECK and NOT NULL constraints of a row
issueRowCheck(row) ==
    /\ IsText(row.category) /\ arrayIncludes(validCategories, row.category.v)
    /\ IsText(row.severity) /\ arrayIncludes(validSeverities, row.severity.v)
    /\ IsText(row.title) /\ IsText(row.description) /\ IsText(row.impact)

\* recommendations: the CHECK and NOT NULL constraints of a row
recommendationRowCheck(row) ==
    /\ IsText(row.priority) /\ arrayIncludes(validPriorities, row.priority.v)
    /\ IsText(row.effort) /\ arrayIncludes(validEfforts, row.effort.v)
    /\ IsText(row.title) /\ IsText(row.description)
    /\ IsText(row.implementation) /\ IsText(row.expected_impact)

(***************************************************************************)
(* Inputs: what callers send, what the collaborators answer                *)
(***************************************************************************)
s_url ==
    <<"h","t","t","p","s",":","/","/","e","x","a","m","p","l","e",".","c","o","m">>
s_user1 == <<"u","1">>
s_user2 == <<"u","2">>
s_summary == <<"s","u","m">>
s_text == <<"t","e","x","t">>

\* The body of the request, as request.json() gives it.
RequestBodies ==
    {[url |-> u, userId |-> w] :
        u \in {Undefined, Str(<<>>), Str(s_url)},
        w \in {Undefined, Str(s_user1), Str(s_user2)}}

\* What supabase.auth.getUser() answers.
AuthAnswers ==
    {[error |-> e, user |-> u] :
        e \in BOOLEAN,
        u \in {Null, Obj([id |-> Str(s_user1)]), Obj([id |-> Str(s_user2)])}}

\* What page.evaluate returns when it does not throw.
PageWithLandmarks ==
    ExtractedPageData(Rect(0, 0, 1920, 80), Null, Null, Rect(0, 80, 1920, 900),
                      Rect(800, 300, 200, 50), Null)

PageWithoutLandmarks == ExtractedPageData(Null, Null, Null, Null, Null, Null)

\* The landmarks are hidden elements: rectangles without width or height.
PageWithHiddenLandmarks ==
    ExtractedPageData(Rect(0, 0, 0, 0), Rect(0, 0, 1920, 0), Null, Null,
                      Rect(100, 200, 0, 30), Null)

PageDatas == {PageWithLandmarks, PageWithoutLandmarks, PageWithHiddenLandmarks}

IssueOK ==
    UXIssue(Str(s_layout), Str(s_high), Str(s_text), Str(s_text), Undefined, Str(s_text))
IssueNoCategory ==
    UXIssue(Undefined, Str(s_high), Str(s_text), Str(s_text), Undefined, Str(s_text))
RecOK ==
    UXRecommendation(Str(s_high), Str(s_nav), Str(s_text), Str(s_text), Str(s_text),
                     Str(s_low))
RecNoPriority ==
    UXRecommendation(Undefined, Str(s_cta), Str(s_text), Str(s_text), Str(s_text),
                     Str(s_low))
RecNoTitle ==
    UXRecommendation(Str(s_low), Undefined, Str(s_text), Str(s_text), Str(s_text),
                     Str(s_low))

s_LayoutPadded == <<"L","a","y","o","u","t"," ">>
s_MobilePadded == <<"M","o","b","i","l","e"," ">>
s_HIGHPadded == <<" ","H","I","G","H">>
s_LowPadded == <<" ","L","o","w"," ">>
s_seo == <<"s","e","o">>
s_critical == <<"c","r","i","t","i","c","a","l">>
s_urgent == <<"u","r","g","e","n","t">>
s_huge == <<"h","u","g","e">>
s_plain == <<"c","o","p","y">>

\* Findings whose enum fields are cased, padded or outside the sets.
IssueLayoutPadded ==
    UXIssue(Str(s_LayoutPadded), Str(s_HIGHPadded), Str(s_text), Str(s_text), Undefined,
            Str(s_text))
IssueMobilePadded ==
    UXIssue(Str(s_MobilePadded), Str(s_LowPadded), Str(s_text), Str(s_text), Undefined,
            Str(s_text))
IssueUnknownEnums ==
    UXIssue(Str(s_seo), Str(s_critical), Str(s_text), Str(s_text), Undefined, Str(s_text))
RecPadded ==
    UXRecommendation(Str(s_LowPadded), Str(s_plain), Str(s_text), Str(s_text),
                     Str(s_text), Str(s_HIGHPadded))
RecUnknownEnums ==
    UXRecommendation(Str(s_urgent), Str(s_plain), Str(s_text), Str(s_text), Str(s_text),
                     Str(s_huge))
RecPlain ==
    UXRecommendation(Str(s_medium), Str(s_plain), Str(s_text), Str(s_text), Str(s_text),
                     Str(s_medium))
RecCta ==
    UXRecommendation(Str(s_high), Str(s_cta), Str(s_text), Str(s_text), Str(s_text),
                     Str(s_low))

\* The objects the reasoning service's JSON denotes.
AnalysisClean == UXAnalysisResult(Num(85), Arr(<<>>), Arr(<<>>), Str(s_summary))
AnalysisTypical ==
    UXAnalysisResult(Num(72), Arr(<<IssueOK>>), Arr(<<RecOK>>), Str(s_summary))
AnalysisIssueNoCategory ==
    UXAnalysisResult(Num(60), Arr(<<IssueNoCategory>>), Arr(<<RecOK>>), Str(s_summary))
AnalysisRecNoPriority ==
    UXAnalysisResult(Num(55), Arr(<<IssueOK>>), Arr(<<RecNoPriority>>), Str(s_summary))
AnalysisRecNoTitle ==
    UXAnalysisResult(Num(50), Arr(<<IssueOK>>), Arr(<<RecNoTitle>>), Str(s_summary))
AnalysisScoreZero == UXAnalysisResult(Num(0), Arr(<<>>), Arr(<<>>), Str(s_summary))
AnalysisScoreTooHigh == UXAnalysisResult(Num(150), Arr(<<>>), Arr(<<>>), Str(s_summary))
AnalysisNoFields == UXAnalysisResult(Undefined, Undefined, Undefined, Undefined)
AnalysisEnums ==
    UXAnalysisResult(Num(64),
                     Arr(<<IssueLayoutPadded, IssueMobilePadded, IssueUnknownEnums>>),
                     Arr(<<RecPadded, RecUnknownEnums>>), Str(s_summary))
AnalysisRecsOnly == UXAnalysisResult(Num(80), Arr(<<>>), Arr(<<RecOK>>), Str(s_summary))
AnalysisFourRecs ==
    UXAnalysisResult(Num(77), Arr(<<IssueOK>>), Arr(<<RecOK, RecPlain, RecPlain, RecCta>>),
                     Str(s_summary))

\* Findings that lack their texts: absent or empty.
AnalysisBareFindings ==
    UXAnalysisResult(Num(58),
                     Arr(<<UXIssue(Str(s_layout), Str(s_high), Undefined, Str(<<>>),
                                   Undefined, Undefined)>>),
                     Arr(<<UXRecommendation(Str(s_high), Str(<<>>), Undefined, Undefined,
                                            Undefined, Str(s_low))>>),
                     Str(s_summary))

\* Findings to which the answer itself gives a screenshot and bounds.
AnalysisOwnImages ==
    UXAnalysisResult(Num(66),
                     Arr(<<[IssueOK EXCEPT !.screenshot = Str(<<"i","m","g">>),
                                           !.bounds = Rect(5, 6, 7, 8)]>>),
                     Arr(<<[RecOK EXCEPT !.screenshot = Str(<<"i","m","g">>)]>>),
                     Str(s_summary))

\* A completion: the text of its message, and the object which the first
\* JSON object in that text denotes.
Completion(content, json) == [content |-> content, json |-> json]

Completions ==
    {Completion(Null, Undefined),
     Completion(Str(<<"t">>), Undefined),
     Completion(Str(<<"{", "t", "}">>), Undefined),
     Completion(Str(<<"{", "m", "}">>), AnalysisClean),
     Completion(Str(<<"t", "{", "m", "}", "t">>), AnalysisTypical),
     Completion(Str(<<"{", "m", "}">>), AnalysisTypical),
     Completion(Str(<<"{", "m", "}">>), AnalysisIssueNoCategory),
     Completion(Str(<<"{", "m", "}">>), AnalysisRecNoPriority),
     Completion(Str(<<"{", "m", "}">>), AnalysisRecNoTitle),
     Completion(Str(<<"{", "m", "}">>), AnalysisScoreZero),
     Completion(Str(<<"{", "m", "}">>), AnalysisScoreTooHigh),
     Completion(Str(<<"{", "m", "}">>), AnalysisNoFields),
     Completion(Str(<<"{", "m", "}">>), AnalysisEnums),
     Completion(Str(<<"{", "m", "}">>), AnalysisRecsOnly),
     Completion(Str(<<"{", "m", "}">>), AnalysisFourRecs),
     Completion(Str(<<"{", "m", "}">>), AnalysisBareFindings),
     Completion(Str(<<"{", "m", "}">>), AnalysisOwnImages),
     Completion(Str(<<"{", "m", "}", "t", "{", "t", "}">>), AnalysisClean)}

(***************************************************************************)
(* State                                                                   *)
(***************************************************************************)
\* The invocations of POST under way.
Invocations == DOMAIN inv

NoResponse == [status |-> 0]

\* NextResponse.json(body, { status })
NextResponse(body, status) == [status |-> status, body |-> body]

\* The locals of one invocation of POST and of its call of
\* performUXAnalysis; calls is the sequence of calls made to collaborators,
\* refused the number of its storage calls that storage answered with an
\* error.
NewInvocation ==
    [pc |-> "POST", body |-> Undefined, auth |-> Undefined, scan |-> Null,
     response |-> NoResponse, browser |-> "none", pageLoaded |-> FALSE,
     screenshot |-> Null, pageData |-> Null, messages |-> Undefined,
     completion |-> Undefined, analysisContent |-> Undefined,
     analysis |-> Undefined, k |-> 0, analysisResult |-> Undefined,
     calls |-> <<>>, refused |-> 0]

Init ==
    /\ inv = [i \in {1} |-> NewInvocation]
    /\ scans = <<>>
    /\ ux_issues = <<>>
    /\ recommendations = <<>>

Goes(i, r) == inv' = [inv EXCEPT ![i] = r]

Called(r, call) == [r EXCEPT !.calls = Append(@, call)]

\* A storage call, with the error it answered or none.
Stored(r, call, error) ==
    [r EXCEPT !.calls = Append(@, call),
              !.refused = IF error THEN @ + 1 ELSE @]

TablesUnchanged == UNCHANGED <<scans, ux_issues, recommendations>>

(***************************************************************************)
(* POST, up to the call of performUXAnalysis                               *)
(***************************************************************************)
InternalServerError == NextResponse([error |-> "Internal server error"], 500)

\* request.json() and the check of url and userId; a body that is not JSON
\* makes request.json() throw into the outer catch.
ReadRequest(i) ==
    /\ inv[i].pc = "POST"
    /\ \E parses \in BOOLEAN, body \in RequestBodies :
        Goes(i, IF ~parses
                THEN [inv[i] EXCEPT !.pc = "done", !.response = InternalServerError]
                ELSE IF Falsy(body.url) \/ Falsy(body.userId)
                THEN [inv[i] EXCEPT
                        !.pc = "done",
                        !.body = Obj(body),
                        !.response =
                            NextResponse([error |-> "URL and userId are required"], 400)]
                ELSE [inv[i] EXCEPT !.pc = "getUser", !.body = Obj(body)])
    /\ TablesUnchanged

\* GetUser without the comparison of user.id with userId.
GetUserAnyUser(i) ==
    /\ inv[i].pc = "getUser"
    /\ \E answer \in AuthAnswers :
        LET called == [Called(inv[i], "auth.getUser") EXCEPT !.auth = Obj(answer)]
        IN  Goes(i, IF answer.error \/ Falsy(answer.user)
                    THEN [called EXCEPT
                            !.pc = "done",
                            !.response = NextResponse([error |-> "Unauthorized"], 401)]
                    ELSE [called EXCEPT !.pc = "insertScan"])
    /\ TablesUnchanged

\* createClient() and supabase.auth.getUser()
GetUser(i) ==
    /\ inv[i].pc = "getUser"
    /\ \E answer \in AuthAnswers :
        LET called == [Called(inv[i], "auth.getUser") EXCEPT !.auth = Obj(answer)]
        IN  Goes(i, IF \/ answer.error
                       \/ Falsy(answer.user)
                       \/ answer.user.v.id # inv[i].body.v.userId
                    THEN [called EXCEPT
                            !.pc = "done",
                            !.response = NextResponse([error |-> "Unauthorized"], 401)]
                    ELSE [called EXCEPT !.pc = "insertScan"])
    /\ TablesUnchanged

\* The row of scans as insert(...).select().single() returns it.
pendingScan(id, userId, url) ==
    [id |-> id, user_id |-> userId, url |-> url, status |-> "pending",
     score |-> Null, issues_found |-> Num(0), recommendations_count |-> Num(0),
     summary |-> Null, completed_at |-> Null]

\* InsertScan without the return on scanError.
InsertScanIgnoringError(i) ==
    /\ inv[i].pc = "insertScan"
    /\ \E scanError \in BOOLEAN :
        IF scanError
        THEN /\ Goes(i, [Stored(inv[i], "scans.insert", TRUE) EXCEPT !.pc = "launch"])
             /\ TablesUnchanged
        ELSE LET row == pendingScan(Len(scans) + 1, inv[i].body.v.userId,
                                    inv[i].body.v.url)
             IN  /\ scans' = Append(scans, row)
                 /\ Goes(i, [Stored(inv[i], "scans.insert", FALSE) EXCEPT
                                !.pc = "launch", !.scan = Obj(row)])
                 /\ UNCHANGED <<ux_issues, recommendations>>

\* supabase.from("scans").insert(...): the row is created, or scanError is
\* set and the handler answers 500.
InsertScan(i) ==
    /\ inv[i].pc = "insertScan"
    /\ \E scanError \in BOOLEAN :
        IF scanError
        THEN /\ Goes(i, [Stored(inv[i], "scans.insert", TRUE) EXCEPT
                            !.pc = "done",
                            !.response =
                                NextResponse([error |-> "Failed to create scan"], 500)])
             /\ TablesUnchanged
        ELSE LET row == pendingScan(Len(scans) + 1, inv[i].body.v.userId,
                                    inv[i].body.v.url)
             IN  /\ scans' = Append(scans, row)
                 /\ Goes(i, [Stored(inv[i], "scans.insert", FALSE) EXCEPT
                                !.pc = "launch", !.scan = Obj(row)])
                 /\ UNCHANGED <<ux_issues, recommendations>>

(***************************************************************************)
(* performUXAnalysis                                                       *)
(***************************************************************************)
\* puppeteer.launch(...)
Launch(i) ==
    /\ inv[i].pc = "launch"
    /\ \E ok \in BOOLEAN :
        Goes(i, IF ok
                THEN [Called(inv[i], "puppeteer.launch") EXCEPT
                        !.pc = "newPage", !.browser = "open"]
                ELSE [Called(inv[i], "puppeteer.launch") EXCEPT !.pc = "catch"])
    /\ TablesUnchanged

\* browser.newPage() and the set-up of the page
NewPage(i) ==
    /\ inv[i].pc = "newPage"
    /\ \E ok \in BOOLEAN :
        Goes(i, [Called(inv[i], "browser.newPage") EXCEPT
                    !.pc = IF ok THEN "networkidle2" ELSE "catch"])
    /\ TablesUnchanged

\* GotoNetworkIdle2 going on to the next tier after its own success.
GotoNetworkIdle2Continues(i) ==
    /\ inv[i].pc = "networkidle2"
    /\ \E ok \in BOOLEAN :
        Goes(i, IF ok
                THEN [Called(inv[i], "goto:networkidle2:45000") EXCEPT
                        !.pc = "domcontentloaded", !.pageLoaded = TRUE]
                ELSE [Called(inv[i], "goto:networkidle2:45000") EXCEPT
                        !.pc = "domcontentloaded"])
    /\ TablesUnchanged

\* page.goto(url, { waitUntil: 'networkidle2', timeout: 45000 })
GotoNetworkIdle2(i) ==
    /\ inv[i].pc = "networkidle2"
    /\ \E ok \in BOOLEAN :
        Goes(i, IF ok
                THEN [Called(inv[i], "goto:networkidle2:45000") EXCEPT
                        !.pc = "screenshot", !.pageLoaded = TRUE]
                ELSE [Called(inv[i], "goto:networkidle2:45000") EXCEPT
                        !.pc = "domcontentloaded"])
    /\ TablesUnchanged

\* page.goto(url, { waitUntil: 'domcontentloaded', timeout: 30000 }), then
\* the wait of 3000 ms
GotoDomContentLoaded(i) ==
    /\ inv[i].pc = "domcontentloaded"
    /\ \E ok \in BOOLEAN :
        Goes(i, IF ok
                THEN [Called(Called(inv[i], "goto:domcontentloaded:30000"),
                             "setTimeout:3000") EXCEPT
                        !.pc = "screenshot", !.pageLoaded = TRUE]
                ELSE [Called(inv[i], "goto:domcontentloaded:30000") EXCEPT
                        !.pc = "load"])
    /\ TablesUnchanged

\* page.goto(url, { waitUntil: 'load', timeout: 20000 }); its failure is
\* rethrown to the catch block of performUXAnalysis.
GotoLoad(i) ==
    /\ inv[i].pc = "load"
    /\ \E ok \in BOOLEAN :
        Goes(i, IF ok
                THEN [Called(inv[i], "goto:load:20000") EXCEPT
                        !.pc = "screenshot", !.pageLoaded = TRUE]
                ELSE [Called(inv[i], "goto:load:20000") EXCEPT !.pc = "catch"])
    /\ TablesUnchanged

\* Screenshot with its failure thrown to the catch block.
ScreenshotFailureThrows(i) ==
    /\ inv[i].pc = "screenshot"
    /\ \E ok \in BOOLEAN :
        Goes(i, [Called(Called(inv[i], "setTimeout:2000"), "page.screenshot") EXCEPT
                    !.pc = IF ok THEN "evaluate" ELSE "catch",
                    !.screenshot = IF ok THEN Str(<<"p","n","g">>) ELSE Null])
    /\ TablesUnchanged

\* The wait of 2000 ms and page.screenshot(...); a failure leaves
\* screenshot null.
Screenshot(i) ==
    /\ inv[i].pc = "screenshot"
    /\ \E ok \in BOOLEAN :
        Goes(i, [Called(Called(inv[i], "setTimeout:2000"), "page.screenshot") EXCEPT
                    !.pc = "evaluate",
                    !.screenshot = IF ok THEN Str(<<"p","n","g">>) ELSE Null])
    /\ TablesUnchanged

\* page.evaluate(...); a failure gives the minimal page data.
Evaluate(i) ==
    /\ inv[i].pc = "evaluate"
    /\ \E data \in PageDatas \cup {MinimalPageData} :
        Goes(i, [Called(inv[i], "page.evaluate") EXCEPT
                    !.pc = "completion", !.pageData = data])
    /\ TablesUnchanged

\* The prompt; only its presence is read.
analysisPrompt == Str(<<"p","r","o","m","p","t">>)

\* The content of the one user message: the prompt and the image when
\* there is a screenshot, the prompt alone otherwise.
messageContent(screenshot) ==
    IF ~Falsy(screenshot)
    THEN Arr(<<[type |-> "text", data |-> analysisPrompt],
               [type |-> "image_url", data |-> screenshot]>>)
    ELSE analysisPrompt

MaxRecommendationCrops == 3

\* parsedAnalysis with the fallback of the catch block in place of the
\* fallback of the parse.
parsedAnalysisOtherFallback(completion) ==
    IF JSONparses(jsonMatch(completion.content.v).v)
    THEN completion.json
    ELSE CatchFallbackResult

\* The text of the completion to the analysis: the match of the regular
\* expression, JSON.parse, and the fallback when JSON.parse throws.  The
\* content is a string in which the regular expression matches.
parsedAnalysis(completion) ==
    IF JSONparses(jsonMatch(completion.content.v).v)
    THEN completion.json
    ELSE ParseFallbackAnalysis

\* screenshot && analysis.issues && analysis.issues.length > 0
cropsIssues(screenshot, analysis) ==
    /\ ~Falsy(screenshot)
    /\ ~Falsy(analysis.issues)
    /\ Len(analysis.issues.v) > 0

\* analysis.recommendations && analysis.recommendations.length > 0
cropsRecommendations(analysis) ==
    /\ ~Falsy(analysis.recommendations)
    /\ Len(analysis.recommendations.v) > 0

\* CreateCompletion calling the service again when the call rejected.
CreateCompletionRetries(i) ==
    /\ inv[i].pc = "completion"
    /\ \/ Goes(i, [Called(inv[i], "openai.create") EXCEPT
                        !.messages = messageContent(inv[i].screenshot),
                        !.pc = "completion"])
       \/ \E completion \in Completions :
            LET called == [Called(inv[i], "openai.create") EXCEPT
                             !.messages = messageContent(inv[i].screenshot),
                             !.completion = completion,
                             !.analysisContent = completion.content]
            IN  Goes(i, IF Falsy(completion.content)
                        THEN [called EXCEPT !.pc = "catch"]
                        ELSE IF Falsy(jsonMatch(completion.content.v))
                        THEN [called EXCEPT !.pc = "catch"]
                        ELSE LET analysis == parsedAnalysis(completion)
                             IN  [called EXCEPT
                                    !.analysis = analysis,
                                    !.k = 0,
                                    !.pc = IF cropsIssues(inv[i].screenshot, analysis)
                                           THEN "cropIssues" ELSE "return"])
    /\ TablesUnchanged

\* openai.chat.completions.create(...) and the parse of its answer.  The
\* call may reject; an empty content and a content without a match throw.
CreateCompletion(i) ==
    /\ inv[i].pc = "completion"
    /\ \/ Goes(i, [Called(inv[i], "openai.create") EXCEPT
                        !.messages = messageContent(inv[i].screenshot),
                        !.pc = "catch"])
       \/ \E completion \in Completions :
            LET called == [Called(inv[i], "openai.create") EXCEPT
                             !.messages = messageContent(inv[i].screenshot),
                             !.completion = completion,
                             !.analysisContent = completion.content]
            IN  Goes(i, IF Falsy(completion.content)
                        THEN [called EXCEPT !.pc = "catch"]
                        ELSE IF Falsy(jsonMatch(completion.content.v))
                        THEN [called EXCEPT !.pc = "catch"]
                        ELSE LET analysis == parsedAnalysis(completion)
                             IN  [called EXCEPT
                                    !.analysis = analysis,
                                    !.k = 0,
                                    !.pc = IF cropsIssues(inv[i].screenshot, analysis)
                                           THEN "cropIssues" ELSE "return"])
    /\ TablesUnchanged

\* CropIssue with a failed crop thrown to the catch block.
CropIssueFailureThrows(i) ==
    /\ inv[i].pc = "cropIssues"
    /\ LET self == inv[i]
           issues == self.analysis.issues.v
       IN  IF self.k >= Len(issues)
           THEN Goes(i, [self EXCEPT
                           !.k = 0,
                           !.pc = IF cropsRecommendations(self.analysis)
                                  THEN "cropRecommendations" ELSE "return"])
           ELSE LET elementBounds == issueElementBounds(issues[self.k + 1], self.pageData)
                IN  IF hasArea(elementBounds)
                    THEN \E sharpOk \in BOOLEAN :
                        LET elementScreenshot ==
                                captureElementScreenshot(self.screenshot, elementBounds.v,
                                                         self.pageData.viewport, sharpOk)
                            called == [Called(self, "captureElementScreenshot") EXCEPT
                                         !.k = self.k + 1]
                        IN  Goes(i, IF Falsy(elementScreenshot)
                                    THEN [called EXCEPT !.pc = "catch"]
                                    ELSE [called EXCEPT
                                            !.analysis.issues.v[self.k + 1].screenshot =
                                                elementScreenshot,
                                            !.analysis.issues.v[self.k + 1].bounds =
                                                elementBounds])
                    ELSE Goes(i, [self EXCEPT !.k = self.k + 1])
    /\ TablesUnchanged

\* One turn of the loop over analysis.issues.
CropIssue(i) ==
    /\ inv[i].pc = "cropIssues"
    /\ LET self == inv[i]
           issues == self.analysis.issues.v
       IN  IF self.k >= Len(issues)
           THEN Goes(i, [self EXCEPT
                           !.k = 0,
                           !.pc = IF cropsRecommendations(self.analysis)
                                  THEN "cropRecommendations" ELSE "return"])
           ELSE LET elementBounds == issueElementBounds(issues[self.k + 1], self.pageData)
                IN  IF hasArea(elementBounds)
                    THEN \E sharpOk \in BOOLEAN :
                        LET elementScreenshot ==
                                captureElementScreenshot(self.screenshot, elementBounds.v,
                                                         self.pageData.viewport, sharpOk)
                            called == [Called(self, "captureElementScreenshot") EXCEPT
                                         !.k = self.k + 1]
                        IN  Goes(i, IF Falsy(elementScreenshot) THEN called
                                    ELSE [called EXCEPT
                                            !.analysis.issues.v[self.k + 1].screenshot =
                                                elementScreenshot,
                                            !.analysis.issues.v[self.k + 1].bounds =
                                                elementBounds])
                    ELSE Goes(i, [self EXCEPT !.k = self.k + 1])
    /\ TablesUnchanged

\* One turn of the loop over the first recommendations; toLowerCase of a
\* title that is no string throws into the catch block.
CropRecommendation(i) ==
    /\ inv[i].pc = "cropRecommendations"
    /\ LET self == inv[i]
           recs == self.analysis.recommendations.v
       IN  IF self.k >= Min(Len(recs), MaxRecommendationCrops)
           THEN Goes(i, [self EXCEPT !.pc = "return"])
           ELSE IF recs[self.k + 1].title.t # "string"
           THEN Goes(i, [self EXCEPT !.pc = "catch"])
           ELSE LET elementBounds ==
                        recommendationElementBounds(recs[self.k + 1], self.pageData)
                IN  IF hasArea(elementBounds)
                    THEN \E sharpOk \in BOOLEAN :
                        LET elementScreenshot ==
                                captureElementScreenshot(self.screenshot, elementBounds.v,
                                                         self.pageData.viewport, sharpOk)
                            called == [Called(self, "captureElementScreenshot") EXCEPT
                                         !.k = self.k + 1]
                        IN  Goes(i, IF Falsy(elementScreenshot) THEN called
                                    ELSE [called EXCEPT
                                            !.analysis.recommendations.v[self.k + 1].screenshot =
                                                elementScreenshot])
                    ELSE Goes(i, [self EXCEPT !.k = self.k + 1])
    /\ TablesUnchanged

\* The result returned at the end of the try block.
returnedResult(analysis) ==
    UXAnalysisResult(OrElse(analysis.score, Num(70)),
                     OrElse(analysis.issues, Arr(<<>>)),
                     OrElse(analysis.recommendations, Arr(<<>>)),
                     OrElse(analysis.summary, Str(s_DefaultSummary)))

Return(i) ==
    /\ inv[i].pc = "return"
    /\ Goes(i, [inv[i] EXCEPT
                  !.pc = "finally",
                  !.analysisResult = returnedResult(inv[i].analysis)])
    /\ TablesUnchanged

\* Catch rethrowing what it caught.
CatchRethrows(i) ==
    /\ inv[i].pc = "catch"
    /\ Goes(i, [inv[i] EXCEPT !.pc = "analysisError"])
    /\ TablesUnchanged

\* The catch block: whatever was thrown, the fallback is returned.
Catch(i) ==
    /\ inv[i].pc = "catch"
    /\ Goes(i, [inv[i] EXCEPT !.pc = "finally", !.analysisResult = CatchFallbackResult])
    /\ TablesUnchanged

\* Finally closing the browser on the normal return only.
FinallyOnReturnOnly(i) ==
    /\ inv[i].pc = "finally"
    /\ IF inv[i].browser = "open" /\ inv[i].analysisResult # CatchFallbackResult
       THEN \E ok \in BOOLEAN :
            Goes(i, IF ok
                    THEN [Called(inv[i], "browser.close") EXCEPT
                            !.pc = "updateScan", !.browser = "closed"]
                    ELSE [Called(inv[i], "browser.close") EXCEPT
                            !.pc = "analysisError", !.browser = "closeRejected",
                            !.analysisResult = Undefined])
       ELSE Goes(i, [inv[i] EXCEPT !.pc = "updateScan"])
    /\ TablesUnchanged

\* The finally block: browser.close() when a browser was launched.  When
\* close() rejects, the rejection replaces the value being returned and
\* reaches the catch block of POST.
Finally(i) ==
    /\ inv[i].pc = "finally"
    /\ IF inv[i].browser = "open"
       THEN \E ok \in BOOLEAN :
            Goes(i, IF ok
                    THEN [Called(inv[i], "browser.close") EXCEPT
                            !.pc = "updateScan", !.browser = "closed"]
                    ELSE [Called(inv[i], "browser.close") EXCEPT
                            !.pc = "analysisError", !.browser = "closeRejected",
                            !.analysisResult = Undefined])
       ELSE Goes(i, [inv[i] EXCEPT !.pc = "updateScan"])
    /\ TablesUnchanged

(***************************************************************************)
(* POST, after performUXAnalysis                                           *)
(***************************************************************************)
s_now == <<"n","o","w">>

\* The fields of update({status: "completed", ...}).
completedScan(analysisResult) ==
    [status |-> "completed",
     score |-> analysisResult.score,
     issues_found |-> Num(Len(analysisResult.issues.v)),
     recommendations_count |-> Num(Len(analysisResult.recommendations.v)),
     summary |-> analysisResult.summary,
     completed_at |-> Str(s_now)]

\* updateWhereId without the filter on id: every row takes the fields.
updateEveryRow(table, id, fields) ==
    [n \in DOMAIN table |->
        [column \in DOMAIN table[n] |->
            IF column \in DOMAIN fields THEN fields[column] ELSE table[n][column]]]

\* update(fields).eq("id", id): the rows with that id take the fields.
updateWhereId(table, id, fields) ==
    [n \in DOMAIN table |->
        IF table[n].id = id
        THEN [column \in DOMAIN table[n] |->
                IF column \in DOMAIN fields THEN fields[column] ELSE table[n][column]]
        ELSE table[n]]

\* supabase.from("scans").update({status: "completed", ...}).eq("id", scan.id):
\* the storage may refuse the update, and refuses a score its CHECK rejects;
\* updateError is logged and the handler goes on.
UpdateScan(i) ==
    /\ inv[i].pc = "updateScan"
    /\ LET self == inv[i]
           fields == completedScan(self.analysisResult)
       IN  \E updateError \in (IF scoreCheck(self.analysisResult.score)
                               THEN BOOLEAN ELSE {TRUE}) :
            /\ scans' = IF updateError THEN scans
                        ELSE updateWhereId(scans, self.scan.v.id, fields)
            /\ Goes(i, [Stored(self, "scans.update:completed", updateError) EXCEPT
                          !.pc = "storeIssues"])
    /\ UNCHANGED <<ux_issues, recommendations>>

\* The validation of the issues and supabase.from("ux_issues").insert(...).
\* A TypeError of the map reaches the catch block of POST.
StoreIssues(i) ==
    /\ inv[i].pc = "storeIssues"
    /\ LET self == inv[i]
           issues == self.analysisResult.issues.v
       IN  IF Len(issues) > 0 /\ \E n \in DOMAIN issues : issueMapThrows(issues[n])
           THEN /\ Goes(i, [self EXCEPT !.pc = "analysisError"])
                /\ UNCHANGED ux_issues
           ELSE LET rows == validatedIssues(issues, self.scan.v.id)
                IN  IF Len(issues) > 0 /\ Len(rows) > 0
                    THEN \E issuesError \in
                            (IF \A n \in DOMAIN rows : issueRowCheck(rows[n])
                             THEN BOOLEAN ELSE {TRUE}) :
                        /\ ux_issues' = IF issuesError THEN ux_issues
                                        ELSE ux_issues \o rows
                        /\ Goes(i, [Stored(self, "ux_issues.insert", issuesError) EXCEPT
                                      !.pc = "storeRecommendations"])
                    ELSE /\ Goes(i, [self EXCEPT !.pc = "storeRecommendations"])
                         /\ UNCHANGED ux_issues
    /\ UNCHANGED <<scans, recommendations>>

\* The validation of the recommendations and
\* supabase.from("recommendations").insert(...).
StoreRecommendations(i) ==
    /\ inv[i].pc = "storeRecommendations"
    /\ LET self == inv[i]
           recs == self.analysisResult.recommendations.v
       IN  IF Len(recs) > 0 /\ \E n \in DOMAIN recs : recommendationMapThrows(recs[n])
           THEN /\ Goes(i, [self EXCEPT !.pc = "analysisError"])
                /\ UNCHANGED recommendations
           ELSE LET rows == validatedRecommendations(recs, self.scan.v.id)
                IN  IF Len(recs) > 0 /\ Len(rows) > 0
                    THEN \E recsError \in
                            (IF \A n \in DOMAIN rows : recommendationRowCheck(rows[n])
                             THEN BOOLEAN ELSE {TRUE}) :
                        /\ recommendations' = IF recsError THEN recommendations
                                              ELSE recommendations \o rows
                        /\ Goes(i, [Stored(self, "recommendations.insert", recsError) EXCEPT
                                      !.pc = "respond"])
                    ELSE /\ Goes(i, [self EXCEPT !.pc = "respond"])
                         /\ UNCHANGED recommendations
    /\ UNCHANGED <<scans, ux_issues>>

\* The response of a scan that went through.
completedResponse(scan, analysisResult) ==
    NextResponse([id |-> scan.id,
                  url |-> scan.url,
                  status |-> "completed",
                  score |-> analysisResult.score,
                  issuesFound |-> Num(Len(analysisResult.issues.v)),
                  recommendations |-> Num(Len(analysisResult.recommendations.v)),
                  summary |-> analysisResult.summary], 200)

Respond(i) ==
    /\ inv[i].pc = "respond"
    /\ Goes(i, [inv[i] EXCEPT
                  !.pc = "done",
                  !.response = completedResponse(inv[i].scan.v, inv[i].analysisResult)])
    /\ TablesUnchanged

\* The fields of update({status: "failed"}).
failedScan == [status |-> "failed"]

\* AnalysisError letting what it caught reach the outer catch block.
AnalysisErrorEscapes(i) ==
    /\ inv[i].pc = "analysisError"
    /\ Goes(i, [inv[i] EXCEPT !.pc = "done", !.response = InternalServerError])
    /\ TablesUnchanged

\* The catch block of POST: update({status: "failed"}), whose error is not
\* read, and the response.
AnalysisError(i) ==
    /\ inv[i].pc = "analysisError"
    /\ \E error \in BOOLEAN :
        /\ scans' = IF error THEN scans
                    ELSE updateWhereId(scans, inv[i].scan.v.id, failedScan)
        /\ Goes(i, [Stored(inv[i], "scans.update:failed", error) EXCEPT
                      !.pc = "done",
                      !.response =
                          NextResponse([id |-> inv[i].scan.v.id, status |-> "failed",
                                        error |-> "Analysis failed"], 200)])
    /\ UNCHANGED <<ux_issues, recommendations>>

(***************************************************************************)
(* Specification: an invocation of POST, from the request to the response *)
(***************************************************************************)
Step(i) ==
    \/ ReadRequest(i)
    \/ GetUser(i)
    \/ InsertScan(i)
    \/ Launch(i)
    \/ NewPage(i)
    \/ GotoNetworkIdle2(i)
    \/ GotoDomContentLoaded(i)
    \/ GotoLoad(i)
    \/ Screenshot(i)
    \/ Evaluate(i)
    \/ CreateCompletion(i)
    \/ CropIssue(i)
    \/ CropRecommendation(i)
    \/ Return(i)
    \/ Catch(i)
    \/ Finally(i)
    \/ UpdateScan(i)
    \/ StoreIssues(i)
    \/ StoreRecommendations(i)
    \/ Respond(i)
    \/ AnalysisError(i)

Next == \E i \in {1} : Step(i)

Spec == Init /\ [][Next]_vars

(***************************************************************************)
(* Properties                                                              *)
(***************************************************************************)
\* The invocation created its Scan.
Created(i) == inv[i].scan # Null

\* The row of the Scan the invocation created.
Record(i) == scans[inv[i].scan.v.id]

Ended(i) == inv[i].pc = "done"

MadeCall(i, call) == \E n \in DOMAIN inv[i].calls : inv[i].calls[n] = call

\* The place of the first such call among the calls made, 0 when none.
FirstCall(i, call) ==
    IF MadeCall(i, call)
    THEN CHOOSE n \in DOMAIN inv[i].calls :
            /\ inv[i].calls[n] = call
            /\ \A m \in 1..(n - 1) : inv[i].calls[m] # call
    ELSE 0

IssuesOf(id) == SelectSeq(ux_issues, LAMBDA row : row.scan_id = id)

RecommendationsOf(id) == SelectSeq(recommendations, LAMBDA row : row.scan_id = id)

\* Control is inside performUXAnalysis.
InAnalysis(i) ==
    inv[i].pc \in {"launch", "newPage", "networkidle2", "domcontentloaded", "load",
                   "screenshot", "evaluate", "completion", "cropIssues",
                   "cropRecommendations", "return", "catch", "finally"}

\* performUXAnalysis was called and control has left it.
AfterAnalysis(i) ==
    inv[i].pc \in {"updateScan", "storeIssues", "storeRecommendations", "respond",
                   "analysisError", "done"}
    /\ Created(i)

\* C1: a Scan that has been written completed or failed keeps that status:
\* no step writes another status to it.
C1_TerminalStatusIsKept ==
    [][\A n \in DOMAIN scans :
          scans[n].status \in {"completed", "failed"}
              => scans'[n].status = scans[n].status]_vars

\* C2: a Scan that ends an invocation failed has no score, and no issue and
\* no recommendation is stored for it.
C2_FailedScanHasNothing ==
    \A i \in Invocations :
        (Ended(i) /\ Created(i) /\ Record(i).status = "failed")
            => /\ Record(i).score = Null
               /\ IssuesOf(Record(i).id) = <<>>
               /\ RecommendationsOf(Record(i).id) = <<>>

\* C3: at the end of an invocation that created a Scan, the Scan is
\* completed when performUXAnalysis returned a result and failed when it
\* did not; it is never left pending.  Stated of the invocations in which
\* storage accepted every call.
C3_CompletedIffAnalysisReturned ==
    \A i \in Invocations :
        (Ended(i) /\ Created(i) /\ inv[i].refused = 0)
            => /\ Record(i).status \in {"completed", "failed"}
               /\ Record(i).status = "completed" <=> inv[i].analysisResult # Undefined

\* C4: an invocation that created its Scan ends with a response that carries
\* the id of the Scan and a terminal status, never the internal-error
\* response, and with score and both counts when the status is completed.
C4_ResponseAfterCreation ==
    \A i \in Invocations :
        (Ended(i) /\ Created(i))
            => /\ inv[i].response.status = 200
               /\ inv[i].response.body.id = inv[i].scan.v.id
               /\ inv[i].response.body.status \in {"completed", "failed"}
               /\ inv[i].response.body.status = "completed"
                    => /\ inv[i].response.body.score = inv[i].analysisResult.score
                       /\ inv[i].response.body.issuesFound.t = "number"
                       /\ inv[i].response.body.recommendations.t = "number"

\* A later stage failed (close() rejected) and the caller still got the id
\* and the status failed.
C4_Witness ==
    \E i \in Invocations :
        /\ Ended(i) /\ Created(i)
        /\ inv[i].browser = "closeRejected"
        /\ inv[i].response.status = 200
        /\ inv[i].response.body.status = "failed"

\* The request is one that must be rejected.
MissingField(i) ==
    /\ inv[i].body # Undefined
    /\ Falsy(inv[i].body.v.url) \/ Falsy(inv[i].body.v.userId)

NotTheCaller(i) ==
    /\ inv[i].auth # Undefined
    /\ \/ inv[i].auth.v.error
       \/ Falsy(inv[i].auth.v.user)
       \/ inv[i].auth.v.user.v.id # inv[i].body.v.userId

\* C5: a request without url or userId is answered 400, one whose user is
\* absent or is not userId is answered 401, and in both cases no Scan was
\* created and neither the browser nor the reasoning service was called.
C5_RejectedBeforeCreation ==
    \A i \in Invocations :
        /\ MissingField(i) => inv[i].response.status = 400
        /\ NotTheCaller(i) => inv[i].response.status = 401
        /\ (MissingField(i) \/ NotTheCaller(i))
            => /\ Ended(i)
               /\ ~Created(i)
               /\ ~MadeCall(i, "scans.insert")
               /\ ~MadeCall(i, "puppeteer.launch")
               /\ ~MadeCall(i, "openai.create")
               /\ scans = <<>>

\* The user is authenticated and is not the userId of the request.
C5_Witness ==
    \E i \in Invocations :
        /\ inv[i].auth # Undefined
        /\ ~inv[i].auth.v.error
        /\ ~Falsy(inv[i].auth.v.user)
        /\ inv[i].auth.v.user.v.id # inv[i].body.v.userId
        /\ inv[i].response.status = 401

\* C6: the browser is launched and the reasoning service is called only
\* after the invocation has created its Scan, which is pending as long as
\* control is in performUXAnalysis; without a Scan neither is called.
C6_ScanBeforeExternalCalls ==
    \A i \in Invocations :
        /\ (MadeCall(i, "puppeteer.launch") \/ MadeCall(i, "openai.create")
                \/ InAnalysis(i))
            => /\ Created(i)
               /\ inv[i].scan.v.status = "pending"
               /\ FirstCall(i, "scans.insert") > 0
               /\ MadeCall(i, "puppeteer.launch")
                    => FirstCall(i, "scans.insert") < FirstCall(i, "puppeteer.launch")
               /\ MadeCall(i, "openai.create")
                    => FirstCall(i, "scans.insert") < FirstCall(i, "openai.create")
        /\ InAnalysis(i) => Record(i).status = "pending"

\* The reasoning service has been called.
C6_Witness ==
    \E i \in Invocations :
        /\ MadeCall(i, "openai.create")
        /\ MadeCall(i, "puppeteer.launch")
        /\ Created(i)

\* C7: no Scan is completed while its findings are not yet stored: a
\* completed Scan that counts issues or recommendations has them in storage.
C7_StoredBeforeCompleted ==
    \A i \in Invocations :
        (Created(i) /\ Record(i).status = "completed")
            => /\ Record(i).issues_found.v > 0 => IssuesOf(Record(i).id) # <<>>
               /\ Record(i).recommendations_count.v > 0
                    => RecommendationsOf(Record(i).id) # <<>>

\* The capture failed: the browser did not launch, the page was not set up,
\* or navigation failed on all three tiers.
CaptureFailed(i) ==
    /\ AfterAnalysis(i)
    /\ ~inv[i].pageLoaded

NavigationFailed(i) ==
    /\ CaptureFailed(i)
    /\ MadeCall(i, "goto:load:20000")

\* C8 as stated: when navigation has failed on all three tiers the Scan ends
\* failed, with no issue and no recommendation stored.  Stated of the
\* invocations in which storage accepted every call.
C8_CaptureFailureFailsScan ==
    \A i \in Invocations :
        (Ended(i) /\ NavigationFailed(i) /\ inv[i].refused = 0)
            => /\ Record(i).status = "failed"
               /\ IssuesOf(Record(i).id) = <<>>
               /\ RecommendationsOf(Record(i).id) = <<>>

\* C8 as amended: after a failed capture performUXAnalysis returns the
\* fallback of its catch block, and the handler completes the Scan with it:
\* the response is completed with score 65, the update to completed and the
\* inserts of the one fallback issue and the one fallback recommendation are
\* made, and what storage accepted of them is that fallback.  The Scan ends
\* failed, with nothing stored, only when browser.close() rejected.
C8_CaptureFailureCompletesWithFallback ==
    \A i \in Invocations :
        (Ended(i) /\ CaptureFailed(i))
            => IF inv[i].browser = "closeRejected"
               THEN /\ inv[i].response.body.status = "failed"
                    /\ Record(i).status \in {"pending", "failed"}
                    /\ Record(i).score = Null
                    /\ IssuesOf(Record(i).id) = <<>>
                    /\ RecommendationsOf(Record(i).id) = <<>>
               ELSE /\ inv[i].analysisResult = CatchFallbackResult
                    /\ inv[i].response.body.status = "completed"
                    /\ inv[i].response.body.score = Num(65)
                    /\ MadeCall(i, "scans.update:completed")
                    /\ MadeCall(i, "ux_issues.insert")
                    /\ MadeCall(i, "recommendations.insert")
                    /\ ~MadeCall(i, "scans.update:failed")
                    /\ Record(i).status \in {"pending", "completed"}
                    /\ Record(i).status = "completed"
                         => /\ Record(i).score = Num(65)
                            /\ Record(i).issues_found = Num(1)
                            /\ Record(i).recommendations_count = Num(1)
                    /\ IssuesOf(Record(i).id) \in
                         {<<>>, validatedIssues(CatchFallbackResult.issues.v, Record(i).id)}
                    /\ RecommendationsOf(Record(i).id) \in
                         {<<>>, validatedRecommendations(
                                    CatchFallbackResult.recommendations.v, Record(i).id)}

\* Navigation failed on all three tiers and the Scan ended completed with
\* the fallback findings stored.
C8_Witness ==
    \E i \in Invocations :
        /\ Ended(i) /\ NavigationFailed(i)
        /\ Record(i).status = "completed"
        /\ Len(IssuesOf(Record(i).id)) = 1
        /\ Len(RecommendationsOf(Record(i).id)) = 1

\* C9: performUXAnalysis never propagates an error: once control has left
\* it, it has returned a result, which is the fallback of its catch block
\* whenever the capture failed.
C9_AnalysisAlwaysReturns ==
    \A i \in Invocations :
        AfterAnalysis(i)
            => /\ inv[i].analysisResult # Undefined
               /\ CaptureFailed(i) => inv[i].analysisResult = CatchFallbackResult

\* The reasoning service answered with this text.
Answered(i) == inv[i].analysisContent.t = "string" /\ inv[i].analysisContent.v # <<>>

\* The result is the fallback of the parse: score 70, one issue
\* (performance, medium), one recommendation (medium, medium).
IsParseFallback(result) ==
    /\ result.score = Num(70)
    /\ Len(result.issues.v) = 1
    /\ result.issues.v[1].category = Str(s_performance)
    /\ result.issues.v[1].severity = Str(s_medium)
    /\ Len(result.recommendations.v) = 1
    /\ result.recommendations.v[1].priority = Str(s_medium)
    /\ result.recommendations.v[1].effort = Str(s_medium)

\* C10 as stated: whenever the text of the answer is not valid JSON, the
\* result performUXAnalysis returns is the fallback with score 70.  Stated
\* of the invocations in which it returned a result.
C10_NotJsonGivesParseFallback ==
    \A i \in Invocations :
        (/\ AfterAnalysis(i) /\ Answered(i)
         /\ ~JSONparses(inv[i].analysisContent.v)
         /\ inv[i].analysisResult # Undefined)
            => IsParseFallback(inv[i].analysisResult)

\* C10 as amended: when the span from the first "{" to the last "}" of the
\* answer exists and JSON.parse rejects it, the result performUXAnalysis
\* returns is the fallback with score 70, one issue (performance, medium)
\* and one recommendation (medium, medium); when the answer has no such span
\* the result returned is the fallback of the catch block, with score 65.
\* No result is returned only when browser.close() rejected.
C10_UnparsableSpanGivesParseFallback ==
    \A i \in Invocations :
        (AfterAnalysis(i) /\ Answered(i))
            => IF inv[i].analysisResult = Undefined
               THEN inv[i].browser = "closeRejected"
               ELSE LET span == jsonMatch(inv[i].analysisContent.v)
                    IN  /\ (span # Null /\ ~JSONparses(span.v))
                             => IsParseFallback(inv[i].analysisResult)
                        /\ span = Null => inv[i].analysisResult = CatchFallbackResult

\* The answer held a span that does not parse, and the fallback with score
\* 70 was returned and stored.
C10_Witness ==
    \E i \in Invocations :
        /\ Ended(i) /\ Created(i) /\ Answered(i)
        /\ jsonMatch(inv[i].analysisContent.v) # Null
        /\ ~JSONparses(jsonMatch(inv[i].analysisContent.v).v)
        /\ inv[i].analysisResult # Undefined
        /\ IsParseFallback(inv[i].analysisResult)
        /\ Record(i).status = "completed"
        /\ Record(i).score = Num(70)

(***************************************************************************)
(* The result against the answer of the reasoning service                  *)
(***************************************************************************)
CountCalls(i, call) == Cardinality({n \in DOMAIN inv[i].calls : inv[i].calls[n] = call})

\* JSON.parse accepted the matched span of the answer, and the try block of
\* performUXAnalysis returned the result.
ReturnedFromJson(i) ==
    /\ AfterAnalysis(i)
    /\ Answered(i)
    /\ jsonMatch(inv[i].analysisContent.v) # Null
    /\ JSONparses(jsonMatch(inv[i].analysisContent.v).v)
    /\ inv[i].analysisResult # Undefined
    /\ inv[i].analysisResult # CatchFallbackResult

\* A finding without what the crops add to it.
IssueAsAnswered(issue) == [issue EXCEPT !.screenshot = Undefined, !.bounds = Undefined]

RecommendationAsAnswered(rec) == [rec EXCEPT !.screenshot = Undefined]

\* The list of the result is the list of the JSON, crops apart.
SameIssues(result, json) ==
    /\ result.t = "array" /\ json.t = "array"
    /\ Len(result.v) = Len(json.v)
    /\ \A n \in DOMAIN json.v : IssueAsAnswered(result.v[n]) = IssueAsAnswered(json.v[n])

SameRecommendations(result, json) ==
    /\ result.t = "array" /\ json.t = "array"
    /\ Len(result.v) = Len(json.v)
    /\ \A n \in DOMAIN json.v :
         RecommendationAsAnswered(result.v[n]) = RecommendationAsAnswered(json.v[n])

\* C11: when the JSON of the answer parses, score, issues, recommendations
\* and summary of the result are those of the JSON, and are the defaults
\* (70, empty list, empty list, the fixed sentence) only for a field the
\* JSON does not have; a Scan completed with that result has that score and
\* the lengths of those lists.
C11_ResultIsWhatJsonHolds ==
    \A i \in Invocations :
        ReturnedFromJson(i)
            => LET json == inv[i].completion.json
                   result == inv[i].analysisResult
               IN  /\ result.score =
                        (IF json.score = Undefined THEN Num(70) ELSE json.score)
                   /\ IF json.issues = Undefined THEN result.issues = Arr(<<>>)
                      ELSE SameIssues(result.issues, json.issues)
                   /\ IF json.recommendations = Undefined
                      THEN result.recommendations = Arr(<<>>)
                      ELSE SameRecommendations(result.recommendations,
                                               json.recommendations)
                   /\ result.summary =
                        (IF json.summary = Undefined THEN Str(s_DefaultSummary)
                         ELSE json.summary)
                   /\ (Ended(i) /\ Record(i).status = "completed")
                        => /\ Record(i).score = result.score
                           /\ Record(i).issues_found = Num(Len(result.issues.v))
                           /\ Record(i).recommendations_count =
                                Num(Len(result.recommendations.v))

\* C12: the score of a pending Scan is null, the score of a completed Scan
\* is an integer from 0 to 100, and so is the score answered to the caller
\* with status completed, whatever score the reasoning service gave.
C12_ScoreInRange ==
    /\ \A n \in DOMAIN scans :
        /\ scans[n].status = "pending" => scans[n].score = Null
        /\ scans[n].status = "completed"
             => /\ scans[n].score.t = "number"
                /\ scans[n].score.v \in MinScore..MaxScore
    /\ \A i \in Invocations :
        (Ended(i) /\ Created(i) /\ inv[i].response.body.status = "completed")
            => /\ inv[i].response.body.score.t = "number"
               /\ inv[i].response.body.score.v \in MinScore..MaxScore

(***************************************************************************)
(* The rows handed to storage                                              *)
(***************************************************************************)
\* The invocation ended with both lists of its result accepted by storage.
StoredItsFindings(i) ==
    /\ Ended(i) /\ Created(i)
    /\ inv[i].analysisResult # Undefined
    /\ inv[i].response.body.status = "completed"
    /\ inv[i].refused = 0

\* What the claim gives for a value of an enum field: the values of the set
\* in other case or with blanks around them, and values outside the set.
NormalisedAs(raw, expected, row) == raw = Str(expected[1]) => row = Str(expected[2])

\* C13: every issue row handed to storage has its category and its severity
\* in their sets, every recommendation row its priority and its effort;
\* "Layout " gives layout, "Mobile " mobile, " HIGH" high, " Low " low, and
\* a value outside the set gives layout, medium, medium, medium.
C13_EnumsAreNormalised ==
    /\ \A n \in DOMAIN ux_issues :
        /\ ux_issues[n].category \in
             {Str(s_layout), Str(s_accessibility), Str(s_conversion), Str(s_mobile),
              Str(s_performance)}
        /\ ux_issues[n].severity \in {Str(s_high), Str(s_medium), Str(s_low)}
    /\ \A n \in DOMAIN recommendations :
        /\ recommendations[n].priority \in {Str(s_high), Str(s_medium), Str(s_low)}
        /\ recommendations[n].effort \in {Str(s_high), Str(s_medium), Str(s_low)}
    /\ \A i \in Invocations :
        StoredItsFindings(i)
            => LET issues == inv[i].analysisResult.issues.v
                   recs == inv[i].analysisResult.recommendations.v
                   issueRows == IssuesOf(Record(i).id)
                   recRows == RecommendationsOf(Record(i).id)
               IN  /\ Len(issueRows) = Len(issues)
                   /\ Len(recRows) = Len(recs)
                   /\ \A n \in DOMAIN issues :
                        /\ \A e \in {<<s_layout, s_layout>>, <<s_LayoutPadded, s_layout>>,
                                     <<s_MobilePadded, s_mobile>>, <<s_seo, s_layout>>,
                                     <<s_performance, s_performance>>} :
                             NormalisedAs(issues[n].category, e, issueRows[n].category)
                        /\ \A e \in {<<s_high, s_high>>, <<s_HIGHPadded, s_high>>,
                                     <<s_LowPadded, s_low>>, <<s_critical, s_medium>>,
                                     <<s_medium, s_medium>>} :
                             NormalisedAs(issues[n].severity, e, issueRows[n].severity)
                   /\ \A n \in DOMAIN recs :
                        /\ \A e \in {<<s_high, s_high>>, <<s_LowPadded, s_low>>,
                                     <<s_urgent, s_medium>>, <<s_medium, s_medium>>} :
                             NormalisedAs(recs[n].priority, e, recRows[n].priority)
                        /\ \A e \in {<<s_low, s_low>>, <<s_HIGHPadded, s_high>>,
                                     <<s_huge, s_medium>>, <<s_medium, s_medium>>} :
                             NormalisedAs(recs[n].effort, e, recRows[n].effort)

\* The rows of an answer with cased, padded and unknown values are stored.
C13_Witness ==
    \E i \in Invocations :
        /\ StoredItsFindings(i)
        /\ Len(inv[i].analysisResult.issues.v) = 3
        /\ inv[i].analysisResult.issues.v[1].category = Str(s_LayoutPadded)
        /\ Len(IssuesOf(Record(i).id)) = 3
        /\ IssuesOf(Record(i).id)[1].category = Str(s_layout)
        /\ IssuesOf(Record(i).id)[2].category = Str(s_mobile)
        /\ IssuesOf(Record(i).id)[3].severity = Str(s_medium)
        /\ RecommendationsOf(Record(i).id)[1].priority = Str(s_low)
        /\ RecommendationsOf(Record(i).id)[2].effort = Str(s_medium)

\* The findings that have the fields the filter requires.
IssuesWithRequiredFields(issues) ==
    SelectSeq(issues, LAMBDA issue : ~Falsy(issue.title) /\ ~Falsy(issue.description))

RecommendationsWithRequiredFields(recs) ==
    SelectSeq(recs, LAMBDA rec : /\ ~Falsy(rec.title) /\ ~Falsy(rec.description)
                                 /\ ~Falsy(rec.implementation))

\* C14: whatever the enum fields of its findings hold, and also when a
\* finding has none, a scan whose analysis returned does not fail, and
\* every finding that has title, description and (recommendations)
\* implementation is stored.  Stated of the invocations in which storage
\* accepted every call.
C14_EnumValueNeverRejects ==
    \A i \in Invocations :
        (Ended(i) /\ Created(i) /\ inv[i].analysisResult # Undefined
         /\ inv[i].refused = 0)
            => /\ Record(i).status = "completed"
               /\ inv[i].response.body.status = "completed"
               /\ Len(IssuesOf(Record(i).id)) >=
                    Len(IssuesWithRequiredFields(inv[i].analysisResult.issues.v))
               /\ Len(RecommendationsOf(Record(i).id)) >=
                    Len(RecommendationsWithRequiredFields(
                            inv[i].analysisResult.recommendations.v))

(***************************************************************************)
(* The mappings of the validator applied to their own output               *)
(***************************************************************************)
\* A row read as the callback of issues.map reads a finding: the row has
\* the properties category, severity, title, description, element, impact
\* and screenshot, and no property bounds.
rowAsIssue(row) ==
    [category |-> row.category, severity |-> row.severity, title |-> row.title,
     description |-> row.description, element |-> row.element, impact |-> row.impact,
     bounds |-> Undefined, screenshot |-> row.screenshot]

\* A row read as the callback of recommendations.map reads a finding: the
\* row has no property expectedImpact (its column is expected_impact).
rowAsRecommendation(row) ==
    [priority |-> row.priority, title |-> row.title, description |-> row.description,
     implementation |-> row.implementation, expectedImpact |-> Undefined,
     effort |-> row.effort, screenshot |-> row.screenshot]

issueNormalizedTwice(issue, scan_id) ==
    validatedIssue(rowAsIssue(validatedIssue(issue, scan_id)), scan_id)

recommendationNormalizedTwice(rec, scan_id) ==
    validatedRecommendation(rowAsRecommendation(validatedRecommendation(rec, scan_id)),
                            scan_id)

\* The findings that reach the validator.
FindingsToValidate(i) == AfterAnalysis(i) /\ inv[i].analysisResult # Undefined

\* C15 as stated: the mapping of the validator applied to its own output
\* gives the same record, for issues and for recommendations.  Stated of
\* the findings on which the mapping does not throw.
C15_NormalizeIsIdempotent ==
    \A i \in Invocations :
        FindingsToValidate(i)
            => /\ \A n \in DOMAIN inv[i].analysisResult.issues.v :
                    LET issue == inv[i].analysisResult.issues.v[n]
                    IN  ~issueMapThrows(issue)
                            => issueNormalizedTwice(issue, 1) = validatedIssue(issue, 1)
               /\ \A n \in DOMAIN inv[i].analysisResult.recommendations.v :
                    LET rec == inv[i].analysisResult.recommendations.v[n]
                    IN  ~recommendationMapThrows(rec)
                            => recommendationNormalizedTwice(rec, 1) =
                                    validatedRecommendation(rec, 1)

\* C15 as amended: on a finding whose enum fields are strings, the mapping
\* applied to its own output gives the same category, severity, title,
\* description, element, impact and screenshot (issues) and the same
\* priority, effort, title, description, implementation and screenshot
\* (recommendations); the second application gives null bounds and the
\* default expected impact, which the output of the first does not carry
\* under the names the mapping reads.
C15_NormalizeFixesEnumsAndTexts ==
    \A i \in Invocations :
        FindingsToValidate(i)
            => /\ \A n \in DOMAIN inv[i].analysisResult.issues.v :
                    LET issue == inv[i].analysisResult.issues.v[n]
                        once == validatedIssue(issue, 1)
                        twice == issueNormalizedTwice(issue, 1)
                    IN  ~issueMapThrows(issue)
                            => /\ \A f \in {"category", "severity", "title", "description",
                                            "element", "impact", "screenshot"} :
                                    twice[f] = once[f]
                               /\ \A f \in {"bounds_x", "bounds_y", "bounds_width",
                                            "bounds_height"} : twice[f] = Null
               /\ \A n \in DOMAIN inv[i].analysisResult.recommendations.v :
                    LET rec == inv[i].analysisResult.recommendations.v[n]
                        once == validatedRecommendation(rec, 1)
                        twice == recommendationNormalizedTwice(rec, 1)
                    IN  ~recommendationMapThrows(rec)
                            => /\ \A f \in {"priority", "effort", "title", "description",
                                            "implementation", "screenshot"} :
                                    twice[f] = once[f]
                               /\ twice.expected_impact = Str(s_DefaultExpectedImpact)

\* A finding with padded enum values reaches the validator: the first
\* application changes it, the second changes nothing of category and
\* severity.
C15_Witness ==
    \E i \in Invocations :
        /\ FindingsToValidate(i)
        /\ \E n \in DOMAIN inv[i].analysisResult.issues.v :
            LET issue == inv[i].analysisResult.issues.v[n]
            IN  /\ issue.category = Str(s_MobilePadded)
                /\ validatedIssue(issue, 1).category = Str(s_mobile)
                /\ issueNormalizedTwice(issue, 1).category = Str(s_mobile)
                /\ issueNormalizedTwice(issue, 1).severity = Str(s_low)

(***************************************************************************)
(* captureElementScreenshot on its own: calls with rectangles and          *)
(* viewports around the values at which its clamps change                  *)
(***************************************************************************)
CropViewports ==
    {[width |-> w, height |-> ViewportHeight] : w \in {ViewportWidth, 375}}

CropRectangles ==
    {[x |-> x, y |-> y, width |-> w, height |-> h] :
        x \in {-10, 0, padding - 1, padding, padding + 1, 800, 1900, 2000},
        y \in {-10, 0, padding + 1, 300},
        w \in {0, 50, 200, ViewportWidth},
        h \in {0, 50, MaxCropHeight - (2 * padding), MaxCropHeight - (2 * padding) + 1, 500}}

\* A call of captureElementScreenshot, before it runs.
CropCall(elementBounds, viewport) ==
    [pc |-> "captureElementScreenshot",
     fullPageScreenshot |-> Str(<<"p","n","g">>),
     elementBounds |-> elementBounds,
     viewport |-> viewport,
     sharpOk |-> Null,
     extract |-> Null,
     result |-> Undefined]

CropInit ==
    /\ inv \in {[i \in {1} |-> CropCall(elementBounds, viewport)] :
                    elementBounds \in CropRectangles, viewport \in CropViewports}
    /\ scans = <<>>
    /\ ux_issues = <<>>
    /\ recommendations = <<>>

\* The body of captureElementScreenshot: the region is computed and handed
\* to sharp, and the image or null is returned.
RunCaptureElementScreenshot(i) ==
    /\ inv[i].pc = "captureElementScreenshot"
    /\ \E sharpOk \in BOOLEAN :
        Goes(i, [inv[i] EXCEPT
                    !.pc = "returned",
                    !.sharpOk = sharpOk,
                    !.extract = cropRegion(inv[i].elementBounds, inv[i].viewport),
                    !.result = captureElementScreenshot(inv[i].fullPageScreenshot,
                                                        inv[i].elementBounds,
                                                        inv[i].viewport, sharpOk)])
    /\ TablesUnchanged

CropNext == \E i \in {1} : RunCaptureElementScreenshot(i)

CropSpec == CropInit /\ [][CropNext]_vars

\* A call of captureElementScreenshot that has returned.
CropReturned(i) == inv[i].pc = "returned"

\* C16: the region handed to the extraction is cropX = max(0, x - 20),
\* cropY = max(0, y - 20), cropWidth = min(viewport.width - cropX,
\* width + 40), cropHeight = min(height + 40, 400); so cropX >= 0,
\* cropY >= 0, cropX + cropWidth <= viewport.width and cropHeight <= 400,
\* and {x: -10, y: 0, width: 50, height: 500} gives x = 0 and height = 400.
C16_CropRegionIsClamped ==
    \A i \in Invocations :
        CropReturned(i)
            => LET b == inv[i].elementBounds
                   v == inv[i].viewport
                   r == inv[i].extract
               IN  /\ r.left = (IF b.x - 20 > 0 THEN b.x - 20 ELSE 0)
                   /\ r.top = (IF b.y - 20 > 0 THEN b.y - 20 ELSE 0)
                   /\ r.width = (IF v.width - r.left < b.width + 40
                                 THEN v.width - r.left ELSE b.width + 40)
                   /\ r.height = (IF b.height + 40 < 400 THEN b.height + 40 ELSE 400)
                   /\ r.left >= 0
                   /\ r.top >= 0
                   /\ r.left + r.width <= v.width
                   /\ r.height <= 400
                   /\ (b = [x |-> -10, y |-> 0, width |-> 50, height |-> 500])
                        => r.left = 0 /\ r.height = 400

\* The rectangle {x: -10, y: 0, width: 50, height: 500} was cropped on the
\* viewport 1920 wide: the region starts at x = 0 and is 400 high.
C16_Witness ==
    \E i \in Invocations :
        /\ CropReturned(i)
        /\ inv[i].elementBounds = [x |-> -10, y |-> 0, width |-> 50, height |-> 500]
        /\ inv[i].viewport.width = 1920
        /\ inv[i].extract = [left |-> 0, top |-> 0, width |-> 90, height |-> 400]
        /\ inv[i].result # Null

(***************************************************************************)
(* The crops in the pipeline and captureElementScreenshot on its own       *)
(***************************************************************************)
CropperInit == Init \/ CropInit

CropperNext == Next \/ CropNext

CropperSpec == CropperInit /\ [][CropperNext]_vars

\* A call of captureElementScreenshot made on its own.
IsCropCall(i) == inv[i].pc \in {"captureElementScreenshot", "returned"}

\* An invocation of POST whose loops over the findings are under way or
\* over.
FindingsCropped(i) ==
    /\ ~IsCropCall(i)
    /\ inv[i].analysis # Undefined
    /\ inv[i].pc \in {"cropIssues", "cropRecommendations", "return", "finally",
                      "updateScan", "storeIssues", "storeRecommendations", "respond",
                      "done"}

\* A step of the loops leaves the tables as they are and, a crop made or
\* failed, goes on to the next finding.
CropStepGoesOn(i) ==
    /\ (inv[i].pc = "cropIssues" /\ inv[i].k < Len(inv[i].analysis.issues.v))
         => /\ inv'[i].pc = "cropIssues"
            /\ inv'[i].k = inv[i].k + 1
            /\ scans' = scans
    /\ (/\ inv[i].pc = "cropRecommendations"
        /\ inv[i].k < Min(Len(inv[i].analysis.recommendations.v), 3)
        /\ inv[i].analysis.recommendations.v[inv[i].k + 1].title.t = "string")
         => /\ inv'[i].pc = "cropRecommendations"
            /\ inv'[i].k = inv[i].k + 1
            /\ scans' = scans

ReturnedFromTry(i) ==
    /\ AfterAnalysis(i)
    /\ inv[i].analysis # Undefined
    /\ inv[i].analysisResult # Undefined
    /\ inv[i].analysisResult # CatchFallbackResult

\* The issues that have a rectangle with area on the page.
IssuesToCrop(analysis, pageData) ==
    IF Falsy(analysis.issues) THEN {}
    ELSE {n \in DOMAIN analysis.issues.v :
            hasArea(issueElementBounds(analysis.issues.v[n], pageData))}

\* The recommendations among the first three whose title names a landmark
\* that has a rectangle with area on the page.
RecommendationsToCrop(analysis, pageData) ==
    IF Falsy(analysis.recommendations) THEN {}
    ELSE {n \in 1..Min(Len(analysis.recommendations.v), 3) :
            /\ analysis.recommendations.v[n].title.t = "string"
            /\ hasArea(recommendationElementBounds(analysis.recommendations.v[n],
                                                   pageData))}

\* C18: when the analysis succeeded and the full-page image is present, the
\* crop is requested for every issue and for each of the first three
\* recommendations that has a rectangle, and for no recommendation after
\* the third, whatever the number of issues, zero included.
C18_CropsIssuesAndFirstThreeRecommendations ==
    \A i \in Invocations :
        (ReturnedFromTry(i) /\ ~Falsy(inv[i].screenshot))
            => /\ CountCalls(i, "captureElementScreenshot") =
                    Cardinality(IssuesToCrop(inv[i].analysis, inv[i].pageData))
                    + Cardinality(RecommendationsToCrop(inv[i].analysis, inv[i].pageData))
               /\ \A n \in DOMAIN inv[i].analysisResult.recommendations.v :
                    n > 3 => inv[i].analysisResult.recommendations.v[n].screenshot = Undefined

(***************************************************************************)
(* Two invocations of POST under way at once.  Their steps interleave; the *)
(* requests, the pages and the answers are drawn from a part of the inputs *)
(* above.                                                                  *)
(***************************************************************************)
ConcurrentInit ==
    /\ inv = [i \in {1, 2} |-> NewInvocation]
    /\ scans = <<>>
    /\ ux_issues = <<>>
    /\ recommendations = <<>>

\* The cases followed when two invocations interleave: storage accepts
\* every call, the full-page image is captured, navigation succeeds on its
\* first tier or fails on all three, and the request, the page and the
\* answer are among these.
ConcurrentCases(i) ==
    /\ inv[i].refused = 0
    /\ MadeCall(i, "page.screenshot") => ~Falsy(inv[i].screenshot)
    /\ inv[i].pageLoaded => ~MadeCall(i, "goto:domcontentloaded:30000")
    /\ inv[i].body \in
         {Undefined} \cup {Obj([url |-> Str(s_url), userId |-> Str(w)]) :
                                w \in {s_user1, s_user2}}
    /\ inv[i].auth \in
         {Undefined, Obj([error |-> TRUE, user |-> Null])}
            \cup {Obj([error |-> FALSE, user |-> Obj([id |-> Str(w)])]) :
                    w \in {s_user1, s_user2}}
    /\ inv[i].pageData \in {Null, PageWithLandmarks}
    /\ inv[i].completion \in
         {Undefined,
          Completion(Str(<<"{", "m", "}">>), AnalysisTypical),
          Completion(Str(<<"{", "m", "}">>), AnalysisIssueNoCategory)}

ConcurrentStep(i) ==
    \/ ReadRequest(i) /\ ConcurrentCases(i)'
    \/ GetUser(i) /\ ConcurrentCases(i)'
    \/ InsertScan(i) /\ ConcurrentCases(i)'
    \/ Launch(i) /\ ConcurrentCases(i)'
    \/ NewPage(i) /\ ConcurrentCases(i)'
    \/ GotoNetworkIdle2(i) /\ ConcurrentCases(i)'
    \/ GotoDomContentLoaded(i) /\ ConcurrentCases(i)'
    \/ GotoLoad(i) /\ ConcurrentCases(i)'
    \/ Screenshot(i) /\ ConcurrentCases(i)'
    \/ Evaluate(i) /\ ConcurrentCases(i)'
    \/ CreateCompletion(i) /\ ConcurrentCases(i)'
    \/ CropIssue(i) /\ ConcurrentCases(i)'
    \/ CropRecommendation(i) /\ ConcurrentCases(i)'
    \/ Return(i) /\ ConcurrentCases(i)'
    \/ Catch(i) /\ ConcurrentCases(i)'
    \/ Finally(i) /\ ConcurrentCases(i)'
    \/ UpdateScan(i) /\ ConcurrentCases(i)'
    \/ StoreIssues(i) /\ ConcurrentCases(i)'
    \/ StoreRecommendations(i) /\ ConcurrentCases(i)'
    \/ Respond(i) /\ ConcurrentCases(i)'
    \/ AnalysisError(i) /\ ConcurrentCases(i)'

ConcurrentNext == \E i \in {1, 2} : ConcurrentStep(i)

ConcurrentSpec == ConcurrentInit /\ [][ConcurrentNext]_vars

\* The step is one of invocation i.
StepOf(i) == inv'[i] # inv[i]

\* What a step of invocation i may write: nothing of another invocation,
\* in scans its own row only (the row it inserts, or the row whose id its
\* insert returned), and findings of its own Scan only.
WritesOnlyItsOwn(i) ==
    /\ \A j \in Invocations \ {i} : inv'[j] = inv[j]
    /\ Len(scans') >= Len(scans)
    /\ \A n \in DOMAIN scans :
         scans'[n] # scans[n] => Created(i) /\ scans[n].id = inv[i].scan.v.id
    /\ \A n \in DOMAIN scans' \ DOMAIN scans :
         /\ inv[i].scan = Null
         /\ inv'[i].scan = Obj(scans'[n])
    /\ Len(ux_issues') >= Len(ux_issues)
    /\ SubSeq(ux_issues', 1, Len(ux_issues)) = ux_issues
    /\ \A n \in DOMAIN ux_issues' \ DOMAIN ux_issues :
         Created(i) /\ ux_issues'[n].scan_id = inv[i].scan.v.id
    /\ Len(recommendations') >= Len(recommendations)
    /\ SubSeq(recommendations', 1, Len(recommendations)) = recommendations
    /\ \A n \in DOMAIN recommendations' \ DOMAIN recommendations :
         Created(i) /\ recommendations'[n].scan_id = inv[i].scan.v.id

\* C19: when invocations interleave, each has a Scan of its own, launches
\* and closes its own browser only, and every update and every insert it
\* makes goes to the Scan it created: no step of one invocation changes the
\* Scan, the findings or the browser of another.
C19_InvocationsAreIsolated ==
    /\ [](\A i \in Invocations :
            /\ \A j \in Invocations \ {i} :
                 (Created(i) /\ Created(j)) => inv[i].scan.v.id # inv[j].scan.v.id
            /\ Created(i)
                 => /\ inv[i].scan.v.id \in DOMAIN scans
                    /\ Record(i).id = inv[i].scan.v.id
                    /\ Record(i).user_id = inv[i].body.v.userId
                    /\ Record(i).status # "pending"
                         => \/ MadeCall(i, "scans.update:completed")
                            \/ MadeCall(i, "scans.update:failed")
            /\ CountCalls(i, "puppeteer.launch") <= 1
            /\ CountCalls(i, "browser.close") <= CountCalls(i, "puppeteer.launch")
            /\ inv[i].browser # "none" => MadeCall(i, "puppeteer.launch")
            /\ MadeCall(i, "browser.close")
                 <=> inv[i].browser \in {"closed", "closeRejected"})
    /\ [][\A i \in Invocations : StepOf(i) => WritesOnlyItsOwn(i)]_vars

\* Two invocations of different callers are under way: the one that created
\* its Scan second has completed it and stored its issue, while the other
\* has its browser open and its Scan pending, with nothing stored for it.
C19_Witness ==
    /\ Invocations = {1, 2}
    /\ Created(1) /\ Created(2)
    /\ inv[1].body.v.userId # inv[2].body.v.userId
    /\ inv[2].scan.v.id = 1
    /\ inv[1].pc = "storeRecommendations"
    /\ Record(1).status = "completed"
    /\ Len(IssuesOf(Record(1).id)) = 1
    /\ inv[2].browser = "open"
    /\ Record(2).status = "pending"
    /\ IssuesOf(Record(2).id) = <<>>

(***************************************************************************)
(* The span of the answer that is parsed                                   *)
(***************************************************************************)
\* The first balanced span of a text: from its first "{" to the "}" that
\* closes it, null when there is none.
firstBalancedSpan(content) ==
    LET opens == {k \in DOMAIN content : content[k] = "{"}
    IN  IF opens = {} THEN Null
        ELSE LET a == CHOOSE k \in opens : \A j \in opens : k <= j
                 rest == SubSeq(content, a, Len(content))
                 closes == {k \in DOMAIN rest : Depth(rest, k) = 0}
             IN  IF closes = {} THEN Null
                 ELSE LET b == CHOOSE k \in closes : \A j \in closes : k <= j
                      IN  Str(SubSeq(rest, 1, b))

\* The analysis the crops work on is the object of the JSON, crops apart.
AnalysisIsJson(analysis, json) ==
    /\ analysis.score = json.score
    /\ analysis.summary = json.summary
    /\ IF json.issues = Undefined THEN analysis.issues = Undefined
       ELSE SameIssues(analysis.issues, json.issues)
    /\ IF json.recommendations = Undefined THEN analysis.recommendations = Undefined
       ELSE SameRecommendations(analysis.recommendations, json.recommendations)

\* C20: the text that is parsed is the first balanced span of the answer:
\* when that span is a JSON object, whatever text and braces follow it, the
\* analysis is the object it denotes; and the error of an answer without
\* JSON is raised only when the answer has no such span.  Stated of the
\* invocations in which performUXAnalysis returned a result.
C20_FirstBalancedSpanIsParsed ==
    \A i \in Invocations :
        (AfterAnalysis(i) /\ Answered(i) /\ inv[i].analysisResult # Undefined)
            => LET span == firstBalancedSpan(inv[i].analysisContent.v)
               IN  (span # Null /\ JSONparses(span.v))
                      => /\ jsonMatch(inv[i].analysisContent.v) # Null
                         /\ inv[i].analysis # Undefined
                         /\ AnalysisIsJson(inv[i].analysis, inv[i].completion.json)

(***************************************************************************)
(* Navigation                                                              *)
(***************************************************************************)
\* The three tiers of page.goto, in the order of the source.
NavigationTiers ==
    <<"goto:networkidle2:45000", "goto:domcontentloaded:30000", "goto:load:20000">>

IsGoto(call) == \E t \in DOMAIN NavigationTiers : NavigationTiers[t] = call

\* The attempts of navigation the invocation has made, in order.
Gotos(i) == SelectSeq(inv[i].calls, IsGoto)

\* Navigation is over: a tier succeeded, or the third failed.
NavigationOver(i) ==
    /\ Gotos(i) # <<>>
    /\ inv[i].pc \notin {"networkidle2", "domcontentloaded", "load"}

\* The calls made after the last attempt of navigation.
AfterLastGoto(i) ==
    LET calls == inv[i].calls
        last == CHOOSE n \in DOMAIN calls :
                    /\ IsGoto(calls[n])
                    /\ \A m \in DOMAIN calls : m > n => ~IsGoto(calls[m])
    IN  SubSeq(calls, last + 1, Len(calls))

\* The first calls after a successful navigation: the wait of 3 s after
\* the second tier only, then the wait of 2 s and the screenshot.
SettleAndScreenshot(i) ==
    IF Len(Gotos(i)) = 2
    THEN <<"setTimeout:3000", "setTimeout:2000", "page.screenshot">>
    ELSE <<"setTimeout:2000", "page.screenshot">>

\* C21: the attempts of navigation are the tiers networkidle2 (45 s),
\* domcontentloaded (30 s), load (20 s) in that order, each at most once,
\* each made only while no earlier one has succeeded; after a success no
\* further attempt is made.  The wait of 3 s is made exactly after a success
\* of the second tier; the wait of 2 s and the screenshot attempt follow any
\* success; when all three fail the catch block is entered, and neither a
\* screenshot nor the reasoning service is ever asked for.
C21_NavigationTiersInOrder ==
    /\ [](\A i \in Invocations :
            /\ Len(Gotos(i)) <= 3
            /\ Gotos(i) = SubSeq(NavigationTiers, 1, Len(Gotos(i)))
            /\ inv[i].pageLoaded => NavigationOver(i)
            /\ (NavigationOver(i) /\ ~inv[i].pageLoaded)
                 => /\ Len(Gotos(i)) = 3
                    /\ AfterLastGoto(i) # <<>> => AfterLastGoto(i)[1] = "browser.close"
                    /\ inv[i].pc = "catch"
                         \/ inv[i].analysisResult \in {Undefined, CatchFallbackResult}
            /\ ~inv[i].pageLoaded
                 => /\ ~MadeCall(i, "setTimeout:2000")
                    /\ ~MadeCall(i, "setTimeout:3000")
                    /\ ~MadeCall(i, "page.screenshot")
                    /\ ~MadeCall(i, "page.evaluate")
                    /\ ~MadeCall(i, "openai.create")
            /\ MadeCall(i, "setTimeout:3000")
                 <=> (inv[i].pageLoaded /\ Len(Gotos(i)) = 2)
            /\ (inv[i].pageLoaded /\ inv[i].pc # "screenshot")
                 => /\ Len(AfterLastGoto(i)) >= Len(SettleAndScreenshot(i))
                    /\ SubSeq(AfterLastGoto(i), 1, Len(SettleAndScreenshot(i)))
                         = SettleAndScreenshot(i)
            /\ CountCalls(i, "setTimeout:2000") <= 1
            /\ CountCalls(i, "page.screenshot") <= 1)
    /\ [][\A i \in Invocations :
            /\ inv[i].pageLoaded => Gotos(i)' = Gotos(i)
            /\ Gotos(i)' # Gotos(i)
                 => /\ Len(Gotos(i)') = Len(Gotos(i)) + 1
                    /\ inv[i].pc = <<"networkidle2", "domcontentloaded", "load">>
                                       [Len(Gotos(i)')]]_vars

\* The first two tiers failed and the third succeeded: three attempts, no
\* wait of 3 s, then the wait of 2 s and the screenshot.
C21_Witness ==
    \E i \in Invocations :
        /\ Len(Gotos(i)) = 3
        /\ inv[i].pageLoaded
        /\ ~MadeCall(i, "setTimeout:3000")
        /\ MadeCall(i, "page.screenshot")
        /\ inv[i].pc = "evaluate"

(***************************************************************************)
(* The release of the browser                                              *)
(***************************************************************************)
\* puppeteer.launch() gave a browser to this invocation.
Launched(i) == inv[i].browser # "none"

\* The calls that are made on the browser or on its page.
BrowserCalls ==
    {"browser.newPage", "goto:networkidle2:45000", "goto:domcontentloaded:30000",
     "goto:load:20000", "page.screenshot", "page.evaluate"}

PastCompletion(i) ==
    inv[i].pc \in {"cropIssues", "cropRecommendations", "return", "catch", "finally"}
    \/ AfterAnalysis(i)

\* C23: the reasoning service is called at most once in a scan.  It has
\* been called exactly once when navigation succeeded and control has
\* passed the call, whether the screenshot and the extraction of the page
\* succeeded or failed, and it is not called when the browser could not be
\* launched, the page not set up, or navigation failed on all three tiers.
C23_ReasoningServiceCalledOnce ==
    \A i \in Invocations :
        /\ CountCalls(i, "openai.create") <= 1
        /\ (inv[i].pageLoaded /\ PastCompletion(i))
             => CountCalls(i, "openai.create") = 1
        /\ ~inv[i].pageLoaded => CountCalls(i, "openai.create") = 0

\* Navigation succeeded, the screenshot and the extraction both failed, and
\* the reasoning service was called once; the scan has ended.
C23_Witness ==
    \E i \in Invocations :
        /\ Ended(i) /\ Created(i)
        /\ inv[i].pageLoaded
        /\ inv[i].screenshot = Null
        /\ inv[i].pageData = MinimalPageData
        /\ CountCalls(i, "openai.create") = 1

(***************************************************************************)
(* A scan without the full-page screenshot                                 *)
(***************************************************************************)
\* Navigation succeeded and page.screenshot() failed.
ScreenshotFailed(i) ==
    /\ inv[i].pageLoaded
    /\ MadeCall(i, "page.screenshot")
    /\ inv[i].screenshot = Null

\* The message sent to the reasoning service carries an image.
ImageAttached(i) ==
    /\ inv[i].messages.t = "array"
    /\ \E n \in DOMAIN inv[i].messages.v : inv[i].messages.v[n].type = "image_url"

\* C24: after a screenshot that failed the scan goes on: the page is
\* extracted, the reasoning service is called with the prompt alone, no
\* crop is asked for and the findings stay as they were parsed.  In every
\* scan the message carries an image exactly when a screenshot was
\* captured, and the image is that screenshot.
C24_ScanGoesOnWithoutScreenshot ==
    \A i \in Invocations :
        /\ ScreenshotFailed(i)
             => /\ inv[i].pc # "evaluate" => MadeCall(i, "page.evaluate")
                /\ inv[i].pc \notin {"evaluate", "completion"}
                     => /\ MadeCall(i, "openai.create")
                        /\ inv[i].messages = analysisPrompt
                /\ ~MadeCall(i, "captureElementScreenshot")
                /\ inv[i].pc \notin {"cropIssues", "cropRecommendations"}
                /\ inv[i].analysis # Undefined
                     => inv[i].analysis = parsedAnalysis(inv[i].completion)
        /\ MadeCall(i, "openai.create")
             => /\ ImageAttached(i) <=> ~Falsy(inv[i].screenshot)
                /\ ImageAttached(i)
                     => inv[i].messages.v[2].data = inv[i].screenshot

\* The screenshot failed and the scan ended completed, with the score and
\* the findings of the answer stored.
C24_Witness ==
    \E i \in Invocations :
        /\ Ended(i) /\ Created(i)
        /\ ScreenshotFailed(i)
        /\ inv[i].analysis = AnalysisTypical
        /\ inv[i].response.body.status = "completed"
        /\ Record(i).status = "completed"
        /\ Record(i).score = Num(72)
        /\ Len(IssuesOf(Record(i).id)) = 1
        /\ Len(RecommendationsOf(Record(i).id)) = 1

(***************************************************************************)
(* The choice of the rectangle of a finding: the body of the loop over the *)
(* issues and the body of the loop over the recommendations, on their own, *)
(* over every page in which each landmark is absent, visible or hidden.    *)
(***************************************************************************)
RuleInit ==
    LET landmarks ==
            [navigation : {Null, Rect(0, 0, 1920, 80), Rect(0, 0, 0, 80)},
             header : {Null, Rect(0, 0, 1920, 120), Rect(0, 0, 1920, 0)},
             footer : {Null, Rect(0, 2000, 1920, 200), Rect(0, 2000, 0, 0)},
             mainContent : {Null, Rect(0, 120, 1920, 900), Rect(0, 120, 0, 900)},
             primaryCTA : {Null, Rect(800, 300, 200, 50), Rect(800, 300, 0, 50)},
             forms : {Null, Rect(400, 600, 600, 300), Rect(400, 600, 600, 0)}]
        pages ==
            {MinimalPageData} \cup
            {ExtractedPageData(b.navigation, b.header, b.footer, b.mainContent,
                               b.primaryCTA, b.forms) : b \in landmarks}
        categories ==
            {Undefined, Str(s_layout), Str(s_conversion), Str(s_accessibility),
             Str(s_mobile), Str(s_performance), Str(s_LayoutPadded), Str(s_seo)}
        titles ==
            {Undefined, Str(<<"B","u","t","t","o","n">>), Str(s_cta), Str(s_nav),
             Str(<<"N","a","v","i","g","a","t","i","o","n">>), Str(s_form),
             Str(s_header), Str(s_plain),
             Str(<<"H","e","a","d","e","r"," ","f","o","r","m">>),
             Str(<<"n","a","v"," ","b","u","t","t","o","n">>),
             Str(<<"f","o","r","m"," ","n","a","v">>)}
        findings ==
            {[kind |-> "issue",
              finding |-> UXIssue(c, Str(s_high), Str(s_text), Str(s_text), Undefined,
                                  Str(s_text))] : c \in categories}
            \cup
            {[kind |-> "recommendation",
              finding |-> UXRecommendation(Str(s_high), t, Str(s_text), Str(s_text),
                                           Str(s_text), Str(s_low))] : t \in titles}
    IN  /\ inv \in {[i \in {1} |->
                        [pc |-> "elementBounds", kind |-> f.kind, finding |-> f.finding,
                         pageData |-> p, screenshot |-> Str(<<"p","n","g">>),
                         elementBounds |-> Undefined, threw |-> FALSE]] :
                    f \in findings, p \in pages}
        /\ scans = <<>>
        /\ ux_issues = <<>>
        /\ recommendations = <<>>

\* The body of either loop for one finding: the rectangle is chosen, and
\* when it has area the crop is asked for and, if made, kept on the finding.
\* toLowerCase of the title of a recommendation throws unless it is a string.
ChooseElementBounds(i) ==
    /\ inv[i].pc = "elementBounds"
    /\ LET self == inv[i]
       IN  IF self.kind = "recommendation" /\ self.finding.title.t # "string"
           THEN Goes(i, [self EXCEPT !.pc = "chosen", !.threw = TRUE])
           ELSE LET elementBounds ==
                        IF self.kind = "issue"
                        THEN issueElementBounds(self.finding, self.pageData)
                        ELSE recommendationElementBounds(self.finding, self.pageData)
                    chosen == [self EXCEPT !.pc = "chosen",
                                           !.elementBounds = elementBounds]
                IN  IF hasArea(elementBounds)
                    THEN \E sharpOk \in BOOLEAN :
                        LET elementScreenshot ==
                                captureElementScreenshot(self.screenshot, elementBounds.v,
                                                         self.pageData.viewport, sharpOk)
                        IN  Goes(i, IF Falsy(elementScreenshot) THEN chosen
                                    ELSE IF self.kind = "issue"
                                    THEN [chosen EXCEPT
                                            !.finding.screenshot = elementScreenshot,
                                            !.finding.bounds = elementBounds]
                                    ELSE [chosen EXCEPT
                                            !.finding.screenshot = elementScreenshot])
                    ELSE Goes(i, chosen)
    /\ TablesUnchanged

RuleNext == \E i \in {1} : ChooseElementBounds(i)

RuleSpec == RuleInit /\ [][RuleNext]_vars

\* The table of the rules for issues: the category, the landmark preferred
\* and the landmark taken when the preferred one is absent.
IssueRules ==
    {<<s_layout, "navigation", "header">>,
     <<s_conversion, "primaryCTA", "forms">>,
     <<s_accessibility, "navigation", "mainContent">>,
     <<s_mobile, "header", "navigation">>}

\* The table of the rules for recommendations, in their order: the keywords
\* and the landmark.
RecommendationRules ==
    <<[keywords |-> {s_button, s_cta}, landmark |-> "primaryCTA"],
      [keywords |-> {s_nav}, landmark |-> "navigation"],
      [keywords |-> {s_form}, landmark |-> "forms"],
      [keywords |-> {s_header}, landmark |-> "header"]>>

\* The landmark of the page, null when the page has none or was not
\* extracted.
LandmarkOrNull(pageData, name) ==
    IF pageData.elementBounds = Undefined THEN Null
    ELSE pageData.elementBounds.v[name]

\* The rectangle the tables give to an issue, null when they give none.
RuleRectangleOfIssue(issue, pageData) ==
    IF issue.category = Str(s_performance)
    THEN Rect(0, 0, pageData.viewport.width, 400)
    ELSE IF \E rule \in IssueRules : issue.category = Str(rule[1])
    THEN LET rule == CHOOSE r \in IssueRules : issue.category = Str(r[1])
         IN  IF LandmarkOrNull(pageData, rule[2]) # Null
             THEN LandmarkOrNull(pageData, rule[2])
             ELSE LandmarkOrNull(pageData, rule[3])
    ELSE Null

RuleMatches(rule, title) ==
    \E keyword \in rule.keywords : includes(toLowerCase(title), keyword)

\* The rectangle the tables give to a recommendation whose title is a
\* string: that of the first rule a keyword of which is in the title.
RuleRectangleOfRecommendation(rec, pageData) ==
    LET matching == {n \in DOMAIN RecommendationRules :
                        RuleMatches(RecommendationRules[n], rec.title.v)}
    IN  IF matching = {} THEN Null
        ELSE LET first == CHOOSE n \in matching : \A m \in matching : n <= m
             IN  LandmarkOrNull(pageData, RecommendationRules[first].landmark)

\* The choice has been made for this finding.
Chosen(i) == inv[i].pc = "chosen" /\ ~inv[i].threw

\* The finding took a crop.
HasCrop(finding) == finding.screenshot # Undefined

\* C25: the rectangle chosen for a finding is the one the rule tables give:
\* for an issue the landmark preferred for its category, the second
\* landmark when the preferred one is absent, the top of the page for
\* performance; for a recommendation the landmark of the first rule, in the
\* order button/cta, nav, form, header, whose keyword is in its title.  A
\* crop that is made is made of that rectangle; a finding to which the
\* tables give no rectangle, or a landmark the page does not have, takes no
\* crop.
C25_RectangleFollowsRuleTable ==
    \A i \in Invocations :
        Chosen(i)
            => LET self == inv[i]
                   rectangle ==
                       IF self.kind = "issue"
                       THEN RuleRectangleOfIssue(self.finding, self.pageData)
                       ELSE RuleRectangleOfRecommendation(self.finding, self.pageData)
               IN  /\ rectangle = Null
                        => /\ Falsy(self.elementBounds)
                           /\ ~HasCrop(self.finding)
                   /\ rectangle # Null => self.elementBounds = rectangle
                   /\ HasCrop(self.finding)
                        => /\ rectangle # Null
                           /\ self.finding.screenshot.region =
                                cropRegion(rectangle.v, self.pageData.viewport)
                           /\ self.kind = "issue" => self.finding.bounds = rectangle

\* A conversion issue on a page without a primary CTA and with a form: the
\* crop was made of the rectangle of the form.
C25_Witness ==
    \E i \in Invocations :
        /\ Chosen(i)
        /\ inv[i].kind = "issue"
        /\ inv[i].finding.category = Str(s_conversion)
        /\ LandmarkOrNull(inv[i].pageData, "primaryCTA") = Null
        /\ HasCrop(inv[i].finding)
        /\ inv[i].finding.bounds = Rect(400, 600, 600, 300)

(***************************************************************************)
(* The response against the Scan                                           *)
(***************************************************************************)
\* The handler answered with the status of the scan, after an analysis
\* that returned.
AnsweredStatus(i) ==
    /\ Ended(i) /\ Created(i)
    /\ inv[i].response.status = 200
    /\ inv[i].browser # "closeRejected"

\* C26: the status in the response is the status of the Scan in storage
\* when the response is returned: completed with completed, failed with
\* failed, also when storage answered an update with an error.
C26_ResponseStatusIsStoredStatus ==
    \A i \in Invocations :
        AnsweredStatus(i) => Record(i).status = inv[i].response.body.status

(***************************************************************************)
(* A defective finding in an answer that parsed                            *)
(***************************************************************************)
\* JSON.parse accepted the matched span of the answer, and
\* performUXAnalysis returned a result.
ParsedAndReturned(i) ==
    /\ AfterAnalysis(i)
    /\ Answered(i)
    /\ jsonMatch(inv[i].analysisContent.v) # Null
    /\ JSONparses(jsonMatch(inv[i].analysisContent.v).v)
    /\ inv[i].analysisResult # Undefined

\* C27: when the JSON of the answer parsed, the result returned is never
\* the fallback with score 65: whatever a single finding lacks (a title, a
\* category), the result has the score, the issues and the recommendations
\* of the JSON.
C27_DefectiveFindingKeepsAnalysis ==
    \A i \in Invocations :
        ParsedAndReturned(i)
            => LET json == inv[i].completion.json
                   result == inv[i].analysisResult
               IN  /\ result # CatchFallbackResult
                   /\ result.score = OrElse(json.score, Num(70))
                   /\ SameIssues(result.issues, OrElse(json.issues, Arr(<<>>)))
                   /\ SameRecommendations(result.recommendations,
                                          OrElse(json.recommendations, Arr(<<>>)))

(***************************************************************************)
(* The counts of a completed Scan                                          *)
(***************************************************************************)
\* The handler has stored what it stores, and storage accepted every call.
StoredAll(i) ==
    /\ inv[i].pc \in {"respond", "done"}
    /\ Created(i)
    /\ inv[i].refused = 0

\* C28: when the handler has stored the findings of a Scan that is
\* completed and storage accepted every call, issues_found is the number of
\* issues stored for the Scan and recommendations_count the number of
\* recommendations stored for it: the filter on the required fields removes
\* nothing that was counted.
C28_CountsAreWhatIsStored ==
    \A i \in Invocations :
        (StoredAll(i) /\ Record(i).status = "completed")
            => /\ Record(i).issues_found = Num(Len(IssuesOf(Record(i).id)))
               /\ Record(i).recommendations_count =
                    Num(Len(RecommendationsOf(Record(i).id)))
               /\ Len(validatedIssues(inv[i].analysisResult.issues.v, Record(i).id))
                    = Len(inv[i].analysisResult.issues.v)
               /\ Len(validatedRecommendations(inv[i].analysisResult.recommendations.v,
                                               Record(i).id))
                    = Len(inv[i].analysisResult.recommendations.v)

\* The answer held an issue without title and description and a
\* recommendation without title, description and implementation: both were
\* counted and both are stored, with the default texts.
C28_Witness ==
    \E i \in Invocations :
        /\ StoredAll(i) /\ Ended(i)
        /\ Record(i).status = "completed"
        /\ inv[i].completion # Undefined
        /\ inv[i].completion.json = AnalysisBareFindings
        /\ Record(i).issues_found = Num(1)
        /\ Record(i).recommendations_count = Num(1)
        /\ Len(IssuesOf(Record(i).id)) = 1
        /\ IssuesOf(Record(i).id)[1].title = Str(s_UXIssue)
        /\ Len(RecommendationsOf(Record(i).id)) = 1
        /\ RecommendationsOf(Record(i).id)[1].implementation = Str(s_DefaultImplementation)

(***************************************************************************)
(* The images and bounds in storage                                        *)
(***************************************************************************)
\* The value is an image made by captureElementScreenshot.
IsCrop(x) == x.t = "string" /\ "region" \in DOMAIN x

\* The row has no bounds.
NoBounds(row) ==
    /\ row.bounds_x = Null /\ row.bounds_y = Null
    /\ row.bounds_width = Null /\ row.bounds_height = Null

\* C29: a stored issue or recommendation has a screenshot only when the
\* crop made one for it in this scan, and a stored issue has bounds only
\* when it has such a screenshot: a screenshot or bounds that the answer of
\* the reasoning service gives to a finding is not stored.
C29_OnlyCropsAreStored ==
    \A i \in Invocations :
        Created(i)
            => /\ \A n \in DOMAIN IssuesOf(Record(i).id) :
                    LET row == IssuesOf(Record(i).id)[n]
                    IN  /\ row.screenshot # Null
                             => /\ IsCrop(row.screenshot)
                                /\ MadeCall(i, "captureElementScreenshot")
                        /\ ~NoBounds(row) => IsCrop(row.screenshot)
               /\ \A n \in DOMAIN RecommendationsOf(Record(i).id) :
                    LET row == RecommendationsOf(Record(i).id)[n]
                    IN  row.screenshot # Null
                            => /\ IsCrop(row.screenshot)
                               /\ MadeCall(i, "captureElementScreenshot")

(***************************************************************************)
(* The bounds stored with a cropped issue                                  *)
(***************************************************************************)
\* C30: for every issue that took a crop, the bounds stored with it are x,
\* y, width and height of the rectangle of which the crop was made,
\* whatever integers they are, 0 included (the top of the page, a landmark
\* at the left or upper edge).
C30_StoredBoundsAreTheRectangle ==
    \A i \in Invocations :
        StoredItsFindings(i)
            => \A n \in DOMAIN IssuesOf(Record(i).id) :
                LET row == IssuesOf(Record(i).id)[n]
                    issue == inv[i].analysisResult.issues.v[n]
                    rectangle == issueElementBounds(issue, inv[i].pageData)
                IN  IsCrop(row.screenshot)
                        => /\ issue.bounds = rectangle
                           /\ row.bounds_x = Num(rectangle.v.x)
                           /\ row.bounds_y = Num(rectangle.v.y)
                           /\ row.bounds_width = Num(rectangle.v.width)
                           /\ row.bounds_height = Num(rectangle.v.height)

====
